---- MODULE Spec2Model ----
(***************************************************************************)
(* Model of the parking data pipeline of zzzuaden/final-demo:              *)
(*   backend/server.js        hour-of-day profile, forecast, area store    *)
(*   backend/lib/opendatasoft.js  (src/unnamed/part_000) upstream client,  *)
(*                            annual aggregation, three-tier fallback      *)
(*   backend/lib/areas.js     (src/unnamed/part_001) spatial aggregation   *)
(*                            and ranking                                  *)
(*                                                                         *)
(* Each component has its own specification over the shared variables; a   *)
(* component that a specification does not exercise stays in its initial   *)
(* state.  Time is counted in ticks of half an hour since the epoch, so    *)
(* that flooring to the hour is not the identity.  JavaScript doubles are  *)
(* modelled by exact rationals [n, d].                                     *)
(***************************************************************************)
EXTENDS Integers, Sequences, FiniteSets, TLC

VARIABLES
    hodPc,        \* forecast request: "rows", "built" or "done"
    hodRows,      \* buildHodProfile: the rows handed to it
    hodProfile,   \* buildHodProfile: its result (<<>> before the call)
    hodBase,      \* forecastNextHoursFromHod: baseTotal of the call
    hodForecast,  \* forecastNextHoursFromHod: the points returned
    areaPc,       \* aggregation: "input", "once" or "twice"
    areaItems,    \* aggregateSensorsToAreas: items
    areaRes,      \* aggregateSensorsToAreas: opts.res
    areaNow,      \* Date.now(), in ticks
    areaT1,       \* the clock at the first call
    areaOut1,     \* the cells a first call returned
    areaOut2,     \* the cells a second call on the same input returned
    rankPc,       \* ranking: "input" or "done"
    rankAreasIn,  \* rankAreas: areas
    rankOrigin,   \* rankAreas: lat (lng fixed), or NotFinite
    rankBy,       \* rankAreas: by
    rankOut,      \* rankAreas: the list returned
    aggPc,        \* event aggregation: "input" or "done"
    aggRows,      \* _aggregateEventsToHourly: rows
    aggWindow,    \* _aggregateEventsToHourly: <<start, end>> in ticks
    aggOut,       \* _aggregateEventsToHourly: { capacity, series }
    annPc,        \* fetchAnnualHourlyByRadius: the step the call is at
    annWindow,    \* <<startISO, endISO>> in ticks
    upstream,     \* the datasets behind the API: events, live, locs, ped
    annDs,        \* _fetchAnnualEventsOverlaps: index of the dataset in turn
    annDetected,  \* the result of _detectTimeFields for it
    annCand,      \* index of the candidate field in turn
    annPart,      \* _fetchAnnualRangeOnce: results so far
    annRows,      \* rows of the dataset in turn
    annOut,       \* _fetchAnnualEventsOverlaps: out
    annSeen,      \* _fetchAnnualEventsOverlaps: seen
    annLive,      \* fetchLiveSensors: results so far
    annCapacity,  \* _proxyAnnualByPedestrian: capacity
    annPicked,    \* ids of the picked pedestrian sensors
    annFields,    \* timeField and countField (NoValue for null)
    annPedRows,   \* rows of the pedestrian-count loop
    annRetryRows, \* rows2 of the loop inside the catch
    annResult,    \* what the call returned, and the tier that made it
    annHist,      \* whether a request failed, whether a reply held a row
    senPc,        \* sensor mapping: "input" or "done"
    senRow,       \* mapSensorRecordToParking: r
    senOut,       \* mapSensorRecordToParking: the record returned
    statPc,       \* stats request: "input" or "done"
    statRecs,     \* the rows fetchLiveSensors returned to it
    statOut,      \* averageOccupancy of the response
    reqPc,        \* area request: where the handler stands
    req,          \* its route, area id and source
    reqFetches,   \* calls made that issue upstream requests
    reqMembers,   \* members resolveAreaMembers found
    reqStatus,    \* status of the response, 0 before it
    storeNow,     \* AREA_HOURLY: the clock, Date.now()
    store,        \* AREA_HOURLY: area id -> hour -> bucket
    storePc,      \* GET /parking/areas: "idle" or "awaiting", per request
    storeTally,   \* the recordAreaSample calls made: <<area, hour>> -> number and sums
    storeLast,    \* the calls of the step just taken, and what each left behind
    storeRead,    \* the series the step just taken read
    storeTicks,   \* clock advances so far
    pgPc,         \* paging loop: "idle", "paging", "done" or "threw"
    pgFn,         \* the loop: "live", "events", "range" or "ped"
    pgDesired,    \* rows wanted: desired, limit, or the offset cap of the pedestrian loop
    pgResults,    \* results
    pgOffset,     \* offset
    pgLog,        \* history of the page requests
    normPc,       \* coordinate normalisation: "idle", "row", "normed" or "mapped"
    normRow,      \* the row as it came from upstream
    normOut       \* the row after normalisation

hodVars  == <<hodPc, hodRows, hodProfile, hodBase, hodForecast>>
areaVars == <<areaPc, areaItems, areaRes, areaNow, areaT1, areaOut1, areaOut2>>
rankVars == <<rankPc, rankAreasIn, rankOrigin, rankBy, rankOut>>

aggVars  == <<aggPc, aggRows, aggWindow, aggOut>>

annWorld == <<annWindow, upstream>>
annTierA == <<annDs, annDetected, annCand, annPart, annRows, annOut, annSeen>>
annTierB == <<annLive, annCapacity, annPicked, annFields, annPedRows, annRetryRows>>
annVars  == <<annPc, annWorld, annTierA, annTierB, annResult, annHist>>

senVars  == <<senPc, senRow, senOut>>

statVars == <<statPc, statRecs, statOut>>

reqVars == <<reqPc, req, reqFetches, reqMembers, reqStatus>>

storeVars == <<storeNow, store, storePc, storeTally, storeLast, storeRead, storeTicks>>

pgVars == <<pgPc, pgFn, pgDesired, pgResults, pgOffset, pgLog>>

normVars == <<normPc, normRow, normOut>>

vars == <<hodVars, areaVars, rankVars, aggVars, annVars, senVars, statVars, reqVars, storeVars,
          pgVars, normVars>>

\* what each component leaves alone
hodOthers  == <<areaVars, rankVars, aggVars, annVars, senVars, statVars, reqVars, storeVars, pgVars, normVars>>
areaOthers == <<hodVars, rankVars, aggVars, annVars, senVars, statVars, reqVars, storeVars, pgVars, normVars>>
rankOthers == <<hodVars, areaVars, aggVars, annVars, senVars, statVars, reqVars, storeVars, pgVars, normVars>>
aggOthers  == <<hodVars, areaVars, rankVars, annVars, senVars, statVars, reqVars, storeVars, pgVars, normVars>>
annOthers  == <<hodVars, areaVars, rankVars, aggVars, senVars, statVars, reqVars, storeVars, pgVars, normVars>>
senOthers  == <<hodVars, areaVars, rankVars, aggVars, annVars, statVars, reqVars, storeVars, pgVars, normVars>>
statOthers == <<hodVars, areaVars, rankVars, aggVars, annVars, senVars, reqVars, storeVars, pgVars, normVars>>
reqOthers  == <<hodVars, areaVars, rankVars, aggVars, annVars, senVars, statVars, storeVars, pgVars, normVars>>
storeOthers == <<hodVars, areaVars, rankVars, aggVars, annVars, senVars, statVars, reqVars, pgVars, normVars>>
pgOthers   == <<hodVars, areaVars, rankVars, aggVars, annVars, senVars, statVars, reqVars, storeVars, normVars>>
normOthers == <<hodVars, areaVars, rankVars, aggVars, annVars, senVars, statVars, reqVars, storeVars, pgVars>>

NoValue == "none"

(***************************************************************************)
(* Bounds of the model.                                                    *)
(***************************************************************************)
MaxRows      == 11   \* rows in one buildHodProfile input
MaxRuns      == 2    \* runs of equal consecutive rows in that input
MaxBaseTotal == 6    \* largest baseTotal of a forecast call
MaxItems     == 3    \* items in one aggregateSensorsToAreas input
MaxAreaTicks == 2    \* clock advances while aggregation is observed
MaxCells     == 3    \* cells in one rankAreas input
MaxEvents    == 3    \* rows in one _aggregateEventsToHourly input
PAGE_MAX        == 2 \* rows per page request (100 in the code)
LimitPerDataset == 3 \* limitPerDataset (40000 in the code)
LiveLimit       == 3 \* limit of the live-sensor count (3000 in the code)
OffsetCap       == 4 \* safety cap of the pedestrian loops (100000 in the code)
MaxPicked       == 2 \* pedestrian sensors picked (8 in the code)
MaxRecs         == 3 \* live rows of one stats request
StatTop         == 2 \* buckets in averageOccupancy (10 in the code)
MaxMembers      == 2 \* members of one area
MaxRequests     == 2 \* GET /parking/areas requests in flight
MaxSamples      == 3 \* recordAreaSample calls in all
MaxAdvances     == 2 \* clock advances
LimitDefault    == 3 \* rows wanted when limit is no number (100 in the code)
LimitCeiling    == 5 \* most rows fetchLiveSensors collects (5000 in the code)
MaxLimit        == 6 \* largest limit passed

(***************************************************************************)
(* Time.                                                                   *)
(***************************************************************************)
TicksPerHour == 2
HoursPerDay  == 24
BadDate      == -1      \* a string Date cannot parse (NaN time value)

\* Date#getUTCHours of a tick
UTCHours(t) == (t \div TicksPerHour) % HoursPerDay

(***************************************************************************)
(* Exact rationals standing for doubles.                                   *)
(***************************************************************************)
RECURSIVE Gcd(_, _)
Gcd(a, b) == IF b = 0 THEN a ELSE Gcd(b, a % b)

Abs(x) == IF x < 0 THEN -x ELSE x

Rat(n, d) ==
    LET g == Gcd(Abs(n), d)
    IN  IF g = 0 THEN [n |-> 0, d |-> 1] ELSE [n |-> n \div g, d |-> d \div g]

RAdd(a, b)  == Rat(a.n * b.d + b.n * a.d, a.d * b.d)
RSub(a, b)  == Rat(a.n * b.d - b.n * a.d, a.d * b.d)
RMul(a, b)  == Rat(a.n * b.n, a.d * b.d)
RLeq(a, b)  == a.n * b.d <= b.n * a.d
RLt(a, b)   == a.n * b.d < b.n * a.d
RMin(a, b)  == IF RLeq(a, b) THEN a ELSE b
RMax(a, b)  == IF RLeq(a, b) THEN b ELSE a
RInt(k)     == [n |-> k, d |-> 1]

\* Math.floor and Math.round (halves go up) of a rational
Floor(a)     == a.n \div a.d
MathRound(a) == (2 * a.n + a.d) \div (2 * a.d)

Min(a, b) == IF a <= b THEN a ELSE b
Max(a, b) == IF a <= b THEN b ELSE a

\* Math.max(0, Math.min(1, x))
Clamp01(x) == RMax(RInt(0), RMin(RInt(1), x))

(***************************************************************************)
(* server.js: hour-of-day profile and forecast.                            *)
(***************************************************************************)
\* arr.slice().sort((a,b)=>a-b): ascending, stable
RECURSIVE InsertAsc(_, _)
InsertAsc(x, s) ==
    IF s = <<>> THEN <<x>>
    ELSE IF RLt(x, Head(s)) THEN <<x>> \o s
    ELSE <<Head(s)>> \o InsertAsc(x, Tail(s))

RECURSIVE SortAsc(_)
SortAsc(s) == IF s = <<>> THEN <<>> ELSE InsertAsc(s[Len(s)], SortAsc(SubSeq(s, 1, Len(s) - 1)))

RECURSIVE RSum(_)
RSum(s) == IF s = <<>> THEN RInt(0) ELSE RAdd(Head(s), RSum(Tail(s)))

\* a quantile that counts from the top of the sorted array
quantile_FromTop(sortedArr, qTenths) ==
    IF Len(sortedArr) = 0 THEN NoValue
    ELSE sortedArr[Len(sortedArr) - Floor(Rat((Len(sortedArr) - 1) * qTenths, 10))]

\* _quantile(sortedArr, q) with q = qTenths / 10; NoValue stands for null
quantile(sortedArr, qTenths) ==
    IF Len(sortedArr) = 0 THEN NoValue
    ELSE LET pos  == Rat((Len(sortedArr) - 1) * qTenths, 10)
             base == Floor(pos)
             rest == RSub(pos, RInt(base))
         IN  IF base + 2 <= Len(sortedArr)
             THEN RAdd(sortedArr[base + 1],
                       RMul(rest, RSub(sortedArr[base + 2], sortedArr[base + 1])))
             ELSE sortedArr[base + 1]

\* the free ratio buildHodProfile pushes for a row
RowFreeRatio(r) ==
    LET denom == IF r.total > 0 THEN r.total ELSE Max(1, r.free + r.occ)
    IN  Clamp01(Rat(r.free, denom))

\* buckets[h]: the free ratios of the rows of hour-of-day h, in row order
RECURSIVE HodBucket(_, _)
HodBucket(rows, h) ==
    IF rows = <<>> THEN <<>>
    ELSE LET r == Head(rows)
         IN  IF r.ts # BadDate /\ UTCHours(r.ts) = h
             THEN <<RowFreeRatio(r)>> \o HodBucket(Tail(rows), h)
             ELSE HodBucket(Tail(rows), h)

DefaultMean == Rat(1, 2)
DefaultQ10  == Rat(1, 4)
DefaultQ90  == Rat(9, 10)

\* buildHodProfile(rows): mean, q10, q90 indexed by hour of day 0..23
buildHodProfile(rows) ==
    LET sorted(h) == SortAsc(HodBucket(rows, h))
    IN  [mean |-> [h \in 0..(HoursPerDay - 1) |->
                     IF sorted(h) = <<>> THEN DefaultMean
                     ELSE Clamp01(RMul(RSum(sorted(h)), Rat(1, Len(sorted(h)))))],
         q10  |-> [h \in 0..(HoursPerDay - 1) |->
                     IF sorted(h) = <<>> THEN DefaultQ10
                     ELSE Clamp01(quantile(sorted(h), 1))],
         q90  |-> [h \in 0..(HoursPerDay - 1) |->
                     IF sorted(h) = <<>> THEN DefaultQ90
                     ELSE Clamp01(quantile(sorted(h), 9))]]

\* one point of forecastNextHoursFromHod, i hours after the next full hour
ForecastPoint(nowT, i, baseTotal, p) ==
    LET start == ((nowT \div TicksPerHour) + 1) * TicksPerHour
        t     == start + i * TicksPerHour
        hod   == UTCHours(t)
        fr    == Clamp01(p.mean[hod])
        frLo  == Clamp01(p.q10[hod])
        frHi  == Clamp01(p.q90[hod])
    IN  [ts                 |-> t,
         expected_available |-> MathRound(RMul(fr, RInt(baseTotal))),
         lo80               |-> Max(0, MathRound(RMul(frLo, RInt(baseTotal)))),
         hi80               |-> Min(baseTotal, MathRound(RMul(frHi, RInt(baseTotal)))),
         free_ratio         |-> fr]

forecastNextHoursFromHod(nowT, hours, baseTotal, p) ==
    [i \in 1..hours |-> ForecastPoint(nowT, i - 1, baseTotal, p)]

\* the rows the model hands to buildHodProfile
HodRowSet ==
    { [ts |-> 0,       free |-> 0, occ |-> 1, total |-> 1],   \* day 0 00:00, full
      [ts |-> 48,      free |-> 1, occ |-> 0, total |-> 1],   \* day 1 00:00, empty
      [ts |-> 51,      free |-> 1, occ |-> 1, total |-> 0],   \* day 1 01:30, total unknown
      [ts |-> 50,      free |-> 3, occ |-> 0, total |-> 2],   \* day 1 01:00, free above total
      [ts |-> BadDate, free |-> 1, occ |-> 0, total |-> 1] }  \* unparseable ts

HodHoursSet == {1, 2}      \* hours of a forecast call
HodNowSet   == {47, 0}     \* the clock at a forecast call: 23:30 and 00:00

Runs(s) == 1 + Cardinality({i \in 1..(Len(s) - 1) : s[i] # s[i + 1]})

HodInit ==
    /\ hodPc = "rows"
    /\ hodRows = <<>>
    /\ hodProfile = <<>>
    /\ hodBase = 0
    /\ hodForecast = <<>>

\* the caller collects one more row of the series
HodAddRow ==
    /\ hodPc = "rows"
    /\ Len(hodRows) < MaxRows
    /\ \E r \in HodRowSet :
         /\ Runs(Append(hodRows, r)) <= MaxRuns
         /\ hodRows' = Append(hodRows, r)
    /\ UNCHANGED <<hodPc, hodProfile, hodBase, hodForecast>>
    /\ UNCHANGED hodOthers

HodBuild ==
    /\ hodPc = "rows"
    /\ hodPc' = "built"
    /\ hodProfile' = buildHodProfile(hodRows)
    /\ UNCHANGED <<hodRows, hodBase, hodForecast>>
    /\ UNCHANGED hodOthers

HodForecast ==
    /\ hodPc = "built"
    /\ hodPc' = "done"
    /\ \E baseTotal \in 1..MaxBaseTotal, hours \in HodHoursSet, nowT \in HodNowSet :
         /\ hodBase' = baseTotal
         /\ hodForecast' = forecastNextHoursFromHod(nowT, hours, baseTotal, hodProfile)
    /\ UNCHANGED <<hodRows, hodProfile>>
    /\ UNCHANGED hodOthers

HodNext == HodAddRow \/ HodBuild \/ HodForecast

\* C1: every forecast point has 0 <= lo80 <= expected_available <= hi80 <= baseTotal
C1_ForecastBand ==
    \A i \in 1..Len(hodForecast) :
        LET p == hodForecast[i]
        IN  /\ 0 <= p.lo80
            /\ p.lo80 <= p.expected_available
            /\ p.expected_available <= p.hi80
            /\ p.hi80 <= hodBase

(***************************************************************************)
(* lib/areas.js: aggregateSensorsToAreas.                                  *)
(*                                                                         *)
(* Coordinates are integers on a grid of the finest cells.  h3-js is an    *)
(* external library: latLngToCell is modelled as the grid partition whose  *)
(* cells double in side with each coarser resolution, cellToLatLng as the  *)
(* cell's midpoint (in half units) and cellToBoundary as its corners.      *)
(***************************************************************************)
NotFinite == -1000   \* NaN, or a missing number
Null      == -2000   \* null or undefined
FinestRes == 15

RECURSIVE Pow2(_)
Pow2(k) == IF k = 0 THEN 1 ELSE 2 * Pow2(k - 1)

CellSide(res) == Pow2(FinestRes - res)

latLngToCell(lat, lng, res) ==
    [res |-> res, i |-> lat \div CellSide(res), j |-> lng \div CellSide(res)]

cellToLatLng(cell) ==
    [lat |-> 2 * cell.i * CellSide(cell.res) + CellSide(cell.res),
     lng |-> 2 * cell.j * CellSide(cell.res) + CellSide(cell.res)]

cellToBoundary(cell) ==
    LET n == CellSide(cell.res)
    IN  << <<cell.i * n, cell.j * n>>,       <<cell.i * n, cell.j * n + n>>,
           <<cell.i * n + n, cell.j * n + n>>, <<cell.i * n + n, cell.j * n>> >>

SampleMax == 10

\* Number(x.toFixed(digits)) for scale = 10^digits: the nearest multiple of
\* 1/scale, halves away from zero
\* (by long division, one decimal digit at a time)
RECURSIVE LongDiv(_, _, _)
LongDiv(r, d, scale) ==
    IF scale = 1 THEN <<0, r>>
    ELSE LET prev == LongDiv(r, d, scale \div 10)
         IN  <<prev[1] * 10 + (prev[2] * 10) \div d, (prev[2] * 10) % d>>

ToFixed(x, scale) ==
    LET a    == Abs(x.n)
        frac == LongDiv(a % x.d, x.d, scale)
        m    == (a \div x.d) * scale + frac[1] + (IF 2 * frac[2] >= x.d THEN 1 ELSE 0)
    IN  Rat(IF x.n < 0 THEN -m ELSE m, scale)

\* mutant: the free share instead of the occupied share
OccRate_FreeShare(total_bays, available_bays) ==
    IF total_bays > 0 THEN Rat(available_bays, total_bays) ELSE RInt(0)

\* occRate of a bucket, before rounding
OccRate(total_bays, available_bays) ==
    IF total_bays > 0 THEN RSub(RInt(1), Rat(available_bays, total_bays)) ELSE RInt(0)

\* position of the bucket of cell in the Map (insertion order), 0 if absent
BucketIndex(buckets, cell) ==
    IF \E k \in 1..Len(buckets) : buckets[k].area_id = cell
    THEN CHOOSE k \in 1..Len(buckets) : buckets[k].area_id = cell
    ELSE 0

\* a loop body that counts every record as one bay
AddToBucket_UnitCapacity(b, p, nowT) ==
    LET avail == IF p.available_spots = Null THEN 0 ELSE p.available_spots
        curTs == IF p.updated_at = Null THEN nowT ELSE p.updated_at
        maxTs == IF b.updated_at = Null THEN 0 ELSE b.updated_at
    IN  [area_id        |-> b.area_id,
         total_bays     |-> b.total_bays + 1,
         available_bays |-> b.available_bays + avail,
         updated_at     |-> IF curTs # BadDate /\ curTs > maxTs THEN curTs ELSE b.updated_at,
         sample_bays    |-> IF Len(b.sample_bays) < SampleMax /\ p.id # ""
                            THEN Append(b.sample_bays, p.id) ELSE b.sample_bays]

\* mutant: the update time is always read from the clock
AddToBucket_ClockOnly(b, p, nowT) ==
    LET cap   == IF p.capacity # NotFinite THEN p.capacity ELSE 1
        avail == IF p.available_spots = Null THEN 0 ELSE p.available_spots
        maxTs == IF b.updated_at = Null THEN 0 ELSE b.updated_at
    IN  [area_id        |-> b.area_id,
         total_bays     |-> b.total_bays + cap,
         available_bays |-> b.available_bays + avail,
         updated_at     |-> IF nowT > maxTs THEN nowT ELSE b.updated_at,
         sample_bays    |-> IF Len(b.sample_bays) < SampleMax /\ p.id # ""
                            THEN Append(b.sample_bays, p.id) ELSE b.sample_bays]

\* the loop body of aggregateSensorsToAreas for item p
AddToBucket(b, p, nowT) ==
    LET cap   == IF p.capacity # NotFinite THEN p.capacity ELSE 1
        avail == IF p.available_spots = Null THEN 0 ELSE p.available_spots
        curTs == IF p.updated_at = Null THEN nowT ELSE p.updated_at
        maxTs == IF b.updated_at = Null THEN 0 ELSE b.updated_at
    IN  [area_id        |-> b.area_id,
         total_bays     |-> b.total_bays + cap,
         available_bays |-> b.available_bays + avail,
         updated_at     |-> IF curTs # BadDate /\ curTs > maxTs THEN curTs ELSE b.updated_at,
         sample_bays    |-> IF Len(b.sample_bays) < SampleMax /\ p.id # ""
                            THEN Append(b.sample_bays, p.id) ELSE b.sample_bays]

EmptyBucket(cell) ==
    [area_id |-> cell, total_bays |-> 0, available_bays |-> 0,
     updated_at |-> Null, sample_bays |-> <<>>]

RECURSIVE FillBuckets(_, _, _, _)
FillBuckets(items, res, nowT, buckets) ==
    IF items = <<>> THEN buckets
    ELSE LET p == Head(items)
         IN  IF p.lat = NotFinite \/ p.lng = NotFinite
             THEN FillBuckets(Tail(items), res, nowT, buckets)
             ELSE LET cell == latLngToCell(p.lat, p.lng, res)
                      k    == BucketIndex(buckets, cell)
                  IN  FillBuckets(Tail(items), res, nowT,
                         IF k = 0
                         THEN Append(buckets, AddToBucket(EmptyBucket(cell), p, nowT))
                         ELSE [buckets EXCEPT ![k] = AddToBucket(buckets[k], p, nowT)])

AreaOfBucket(b) ==
    [area_id        |-> b.area_id,
     center         |-> cellToLatLng(b.area_id),
     boundary       |-> cellToBoundary(b.area_id),
     total_bays     |-> b.total_bays,
     available_bays |-> b.available_bays,
     occupancy_rate |-> ToFixed(OccRate(b.total_bays, b.available_bays), 100),
     updated_at     |-> b.updated_at,
     sample_bays    |-> b.sample_bays]

aggregateSensorsToAreas(items, res, nowT) ==
    LET buckets == FillBuckets(items, res, nowT, <<>>)
    IN  [k \in 1..Len(buckets) |-> AreaOfBucket(buckets[k])]

\* the items the model hands to aggregateSensorsToAreas
Item(id, lat, lng, cap, avail, upd) ==
    [id |-> id, lat |-> lat, lng |-> lng, capacity |-> cap,
     available_spots |-> avail, updated_at |-> upd]

AreaItemSet ==
    { Item("a", 0, 0, 1, 1, 10),             \* free bay
      Item("b", 0, 1, 1, 0, 20),             \* occupied bay
      Item("c", 1, 0, 1, Null, Null),        \* availability and update time unknown
      Item("d", NotFinite, 0, 1, 1, 10),     \* no coordinates
      Item("e", 1, 1, 1, 2, BadDate),        \* more spots free than capacity
      Item("",  3, 3, 0, 0, 10),             \* no id, no capacity
      Item("g", 0, 0, 8, 3, 30),             \* a car park of 8
      Item("h", 2, 2, NotFinite, Null, 10) } \* capacity missing

AreaResSet == {FinestRes - 1, FinestRes}
AreaStart  == 100     \* the clock when the items arrive

AreaInit ==
    /\ areaPc = "input"
    /\ areaItems = <<>>
    /\ areaRes = FinestRes
    /\ areaNow = AreaStart
    /\ areaT1 = 0
    /\ areaOut1 = <<>>
    /\ areaOut2 = <<>>

AreaAddItem ==
    /\ areaPc = "input"
    /\ Len(areaItems) < MaxItems
    /\ \E p \in AreaItemSet : areaItems' = Append(areaItems, p)
    /\ UNCHANGED <<areaPc, areaRes, areaNow, areaT1, areaOut1, areaOut2>>
    /\ UNCHANGED areaOthers

AreaTick ==
    /\ areaNow < AreaStart + MaxAreaTicks
    /\ areaNow' = areaNow + 1
    /\ UNCHANGED <<areaPc, areaItems, areaRes, areaT1, areaOut1, areaOut2>>
    /\ UNCHANGED areaOthers

AreaFirstCall ==
    /\ areaPc = "input"
    /\ \E res \in AreaResSet :
         /\ areaRes' = res
         /\ areaOut1' = aggregateSensorsToAreas(areaItems, res, areaNow)
    /\ areaPc' = "once"
    /\ areaT1' = areaNow
    /\ UNCHANGED <<areaItems, areaNow, areaOut2>>
    /\ UNCHANGED areaOthers

AreaSecondCall ==
    /\ areaPc = "once"
    /\ areaOut2' = aggregateSensorsToAreas(areaItems, areaRes, areaNow)
    /\ areaPc' = "twice"
    /\ UNCHANGED <<areaItems, areaRes, areaNow, areaT1, areaOut1>>
    /\ UNCHANGED areaOthers

AreaNext == AreaAddItem \/ AreaTick \/ AreaFirstCall \/ AreaSecondCall

\* the items of the input that the call counted in cell c
Members(c) ==
    {k \in 1..Len(areaItems) :
        /\ areaItems[k].lat # NotFinite
        /\ areaItems[k].lng # NotFinite
        /\ latLngToCell(areaItems[k].lat, areaItems[k].lng, areaRes) = c.area_id}

RECURSIVE SumOver(_, _)
SumOver(S, f) ==
    IF S = {} THEN 0
    ELSE LET k == CHOOSE x \in S : TRUE IN f[k] + SumOver(S \ {k}, f)

ItemCapacity == [k \in 1..Len(areaItems) |-> areaItems[k].capacity]
ItemKnownFree ==
    [k \in 1..Len(areaItems) |->
        IF areaItems[k].available_spots = Null THEN 0 ELSE areaItems[k].available_spots]
\* the bays of item k known to be occupied: none when its availability is unknown
ItemKnownOccupied ==
    [k \in 1..Len(areaItems) |->
        IF areaItems[k].available_spots = Null THEN 0
        ELSE areaItems[k].capacity - areaItems[k].available_spots]

\* rate is num/den rounded to two decimals
IsRounded2(rate, num, den) ==
    /\ 100 % rate.d = 0
    /\ 200 * Abs(rate.n * den - num * rate.d) <= rate.d * den

\* records of the data model: a capacity, and availability unknown or within it
SensorRecordOk(p) ==
    /\ p.capacity # NotFinite
    /\ p.capacity >= 0
    /\ p.available_spots = Null \/ (0 <= p.available_spots /\ p.available_spots <= p.capacity)

\* C6: a record with available_spots = null adds its capacity to total_bays,
\* nothing to available_bays, and is not counted as occupied in the cell's
\* occupancy_rate: the rate is that of the bays known to be occupied
C6_UnknownNotOccupied ==
    (areaPc # "input" /\ \A k \in 1..Len(areaItems) : SensorRecordOk(areaItems[k])) =>
        \A n \in 1..Len(areaOut1) :
            LET c == areaOut1[n]
            IN  /\ c.total_bays = SumOver(Members(c), ItemCapacity)
                /\ c.available_bays = SumOver(Members(c), ItemKnownFree)
                /\ c.total_bays > 0 =>
                     IsRounded2(c.occupancy_rate, SumOver(Members(c), ItemKnownOccupied), c.total_bays)

\* C7 as amended: with available_spots null or within 0..capacity, every cell
\* with total_bays > 0 has 0 <= occupancy_rate <= 1 and occupancy_rate =
\* round(1 - available_bays/total_bays, 2), and a cell with total_bays = 0 has
\* occupancy_rate = 0
C7_OccupancyRate ==
    (areaPc # "input" /\ \A k \in 1..Len(areaItems) : SensorRecordOk(areaItems[k])) =>
        \A n \in 1..Len(areaOut1) :
            LET c == areaOut1[n]
            IN  /\ c.total_bays > 0 =>
                     /\ RLeq(RInt(0), c.occupancy_rate)
                     /\ RLeq(c.occupancy_rate, RInt(1))
                     /\ IsRounded2(c.occupancy_rate, c.total_bays - c.available_bays, c.total_bays)
                /\ c.total_bays = 0 => c.occupancy_rate = RInt(0)

\* C7 witness: a car park of 8 with 3 free (0.625, rounded to 0.63) next to a
\* cell without capacity
C7_Witness ==
    /\ areaPc = "once"
    /\ \A k \in 1..Len(areaItems) : SensorRecordOk(areaItems[k])
    /\ \E n \in 1..Len(areaOut1) :
         areaOut1[n].total_bays = 8 /\ areaOut1[n].occupancy_rate = Rat(63, 100)
    /\ \E n \in 1..Len(areaOut1) :
         areaOut1[n].total_bays = 0 /\ areaOut1[n].occupancy_rate = RInt(0)

\* C7 as stated: capacity an integer >= 1 and available_spots any integer or null
C7_AsStated ==
    (areaPc # "input" /\ \A k \in 1..Len(areaItems) :
                            areaItems[k].capacity # NotFinite /\ areaItems[k].capacity >= 1) =>
        \A n \in 1..Len(areaOut1) :
            LET c == areaOut1[n]
            IN  /\ c.total_bays > 0 =>
                     /\ RLeq(RInt(0), c.occupancy_rate)
                     /\ RLeq(c.occupancy_rate, RInt(1))
                     /\ IsRounded2(c.occupancy_rate, c.total_bays - c.available_bays, c.total_bays)
                /\ c.total_bays = 0 => c.occupancy_rate = RInt(0)

\* C8 as amended: two calls on the same input whose records all carry an
\* updated_at, made at any two times, return identical lists
C8_Idempotent ==
    (areaPc = "twice" /\ \A k \in 1..Len(areaItems) : areaItems[k].updated_at # Null) =>
        areaOut1 = areaOut2

\* C8 witness: two cells aggregated from dated records at two different times
C8_Witness ==
    /\ areaPc = "twice"
    /\ areaT1 < areaNow
    /\ \A k \in 1..Len(areaItems) : areaItems[k].updated_at # Null
    /\ Len(areaOut1) = 2
    /\ areaOut1[1].updated_at = 30

\* C8 as stated: for any list of records
C8_AsStated == areaPc = "twice" => areaOut1 = areaOut2

(***************************************************************************)
(* lib/areas.js: rankAreas.                                                *)
(*                                                                         *)
(* The cells of a ranking lie on one meridian: a position is an arc length *)
(* along it in tenths of a millimetre, where haversineMeters is the        *)
(* absolute difference of the two positions.                               *)
(***************************************************************************)
UnitsPerMeter == 10000

\* haversineMeters(lat1, lon, lat2, lon), in metres
haversineMeters(lat1, lat2) == Rat(Abs(lat2 - lat1), UnitsPerMeter)

\* score of area a before rounding; d is NoDistance for null
NoDistance == [n |-> -1, d |-> 1]

DistanceTo(origin, a) ==
    IF origin # NotFinite THEN haversineMeters(origin, a.center) ELSE NoDistance

\* d ? d/k : 0
DistancePenalty(d, k) ==
    IF d # NoDistance /\ d.n # 0 THEN RMul(d, Rat(1, k)) ELSE RInt(0)

\* mutant: the distance strategy scores by d instead of -d
Score_FarthestFirst(a, d, by) ==
    IF by = "availability" THEN RSub(RInt(a.available_bays), DistancePenalty(d, 50))
    ELSE IF by = "occupancy"
         THEN RSub(RSub(RInt(1), a.occupancy_rate), DistancePenalty(d, 5000))
    ELSE IF by = "distance" THEN DistancePenalty(d, 1)
    ELSE RSub(RSub(RInt(2 * a.available_bays), DistancePenalty(d, 30)),
              RMul(a.occupancy_rate, RInt(10)))

Score(a, d, by) ==
    IF by = "availability" THEN RSub(RInt(a.available_bays), DistancePenalty(d, 50))
    ELSE IF by = "occupancy"
         THEN RSub(RSub(RInt(1), a.occupancy_rate), DistancePenalty(d, 5000))
    ELSE IF by = "distance" THEN RSub(RInt(0), DistancePenalty(d, 1))
    ELSE RSub(RSub(RInt(2 * a.available_bays), DistancePenalty(d, 30)),
              RMul(a.occupancy_rate, RInt(10)))

\* the element rankAreas maps area a to
Scored(a, origin, by) ==
    [area_id        |-> a.area_id,
     center         |-> a.center,
     available_bays |-> a.available_bays,
     occupancy_rate |-> a.occupancy_rate,
     distance_m     |-> DistanceTo(origin, a),
     score          |-> ToFixed(Score(a, DistanceTo(origin, a), by), 1000)]

\* Array#sort((x,y) => y._score - x._score): stable, descending by _score
\* mutant: an unstable sort, which puts a cell before the cells of equal score
RECURSIVE InsertByScore_Unstable(_, _)
InsertByScore_Unstable(x, s) ==
    IF s = <<>> THEN <<x>>
    ELSE IF RLeq(Head(s).score, x.score) THEN <<x>> \o s
    ELSE <<Head(s)>> \o InsertByScore_Unstable(x, Tail(s))

RECURSIVE InsertByScore(_, _)
InsertByScore(x, s) ==
    IF s = <<>> THEN <<x>>
    ELSE IF RLt(Head(s).score, x.score) THEN <<x>> \o s
    ELSE <<Head(s)>> \o InsertByScore(x, Tail(s))

RECURSIVE SortByScore(_)
SortByScore(s) ==
    IF s = <<>> THEN <<>>
    ELSE InsertByScore(s[Len(s)], SortByScore(SubSeq(s, 1, Len(s) - 1)))

rankAreas(areas, origin, by) ==
    SortByScore([k \in 1..Len(areas) |-> Scored(areas[k], origin, by)])

\* the cells the model hands to rankAreas
Cell(id, pos, avail, occPct) ==
    [area_id |-> id, center |-> pos, available_bays |-> avail, occupancy_rate |-> Rat(occPct, 100)]

RankCellSet ==
    { Cell("c100",  1000000, 5, 50),     \* 100 m
      Cell("c5000", 50000000, 9, 10),    \* 5000 m
      Cell("c50",   500000, 0, 100),     \* 50 m
      Cell("cA",    4, 1, 50),           \* 0.4 mm
      Cell("cB",    1, 1, 50),           \* 0.1 mm
      Cell("cC",    1000000, 5, 50) }    \* 100 m again: scores as c100 does

RankBySet     == {"availability", "occupancy", "distance", "mix", "other"}
RankOriginSet == {0, NotFinite}

RankInit ==
    /\ rankPc = "input"
    /\ rankAreasIn = <<>>
    /\ rankOrigin = NotFinite
    /\ rankBy = "mix"
    /\ rankOut = <<>>

\* one more cell of the aggregation result (area ids are distinct)
RankAddCell ==
    /\ rankPc = "input"
    /\ Len(rankAreasIn) < MaxCells
    /\ \E c \in RankCellSet :
         /\ \A k \in 1..Len(rankAreasIn) : rankAreasIn[k].area_id # c.area_id
         /\ rankAreasIn' = Append(rankAreasIn, c)
    /\ UNCHANGED <<rankPc, rankOrigin, rankBy, rankOut>>
    /\ UNCHANGED rankOthers

RankCall ==
    /\ rankPc = "input"
    /\ \E origin \in RankOriginSet, by \in RankBySet :
         /\ rankOrigin' = origin
         /\ rankBy' = by
         /\ rankOut' = rankAreas(rankAreasIn, origin, by)
    /\ rankPc' = "done"
    /\ UNCHANGED rankAreasIn
    /\ UNCHANGED rankOthers

RankNext == RankAddCell \/ RankCall

\* position of the cell with area id in the input of the call
InputIndex(id) == CHOOSE k \in 1..Len(rankAreasIn) : rankAreasIn[k].area_id = id

\* the distance of a returned cell rounded to the millimetre
RoundedDistance(x) == ToFixed(x.distance_m, 1000)

\* C9 as amended: with strategy 'distance' and a finite origin the cells come
\* back in non-decreasing order of their distance rounded to three decimals
\* (1 mm), and cells whose distances round alike keep their input order
C9_DistanceOrder ==
    (rankPc = "done" /\ rankBy = "distance" /\ rankOrigin # NotFinite) =>
        /\ Len(rankOut) = Len(rankAreasIn)
        /\ \A i, j \in 1..Len(rankOut) : i < j =>
             /\ RLeq(RoundedDistance(rankOut[i]), RoundedDistance(rankOut[j]))
             /\ RoundedDistance(rankOut[i]) = RoundedDistance(rankOut[j]) =>
                  InputIndex(rankOut[i].area_id) < InputIndex(rankOut[j].area_id)

\* C9 witness: cells at 100 m, 5000 m and 50 m come back as 50 m, 100 m, 5000 m
C9_Witness ==
    /\ rankPc = "done" /\ rankBy = "distance" /\ rankOrigin = 0
    /\ [k \in 1..Len(rankAreasIn) |-> rankAreasIn[k].area_id] = <<"c100", "c5000", "c50">>
    /\ [k \in 1..Len(rankOut) |-> rankOut[k].area_id] = <<"c50", "c100", "c5000">>

\* C9 as stated: non-decreasing order of the great-circle distance itself
C9_AsStated ==
    (rankPc = "done" /\ rankBy = "distance" /\ rankOrigin # NotFinite) =>
        \A i, j \in 1..Len(rankOut) : i < j =>
            RLeq(rankOut[i].distance_m, rankOut[j].distance_m)

\* C10: for every strategy the result is a permutation of the input, ordered by
\* non-increasing score, and cells of equal score keep their input order
C10_StableDescending ==
    rankPc = "done" =>
        /\ Len(rankOut) = Len(rankAreasIn)
        /\ \A k \in 1..Len(rankAreasIn) :
             \E i \in 1..Len(rankOut) :
                /\ rankOut[i].area_id = rankAreasIn[k].area_id
                /\ rankOut[i].center = rankAreasIn[k].center
                /\ rankOut[i].available_bays = rankAreasIn[k].available_bays
                /\ rankOut[i].occupancy_rate = rankAreasIn[k].occupancy_rate
        /\ \A i, j \in 1..Len(rankOut) : i < j =>
             /\ RLeq(rankOut[j].score, rankOut[i].score)
             /\ rankOut[i].score = rankOut[j].score =>
                  InputIndex(rankOut[i].area_id) < InputIndex(rankOut[j].area_id)

\* C10 witness: a ranking that reorders its input and keeps a tie in input order
C10_Witness ==
    /\ rankPc = "done"
    /\ Len(rankOut) = 3
    /\ rankOut[1].area_id # rankAreasIn[1].area_id
    /\ \E i \in 1..2 :
         /\ rankOut[i].score = rankOut[i + 1].score
         /\ rankOut[i].area_id = "cC" /\ rankOut[i + 1].area_id = "c100"

(***************************************************************************)
(* opendatasoft.js: rows of the annual event datasets.                     *)
(* A row is a record of the fields it has; every scalar is an integer: a   *)
(* tick for a date string, BadDate for a string Date cannot parse, a       *)
(* natural number for an identifier, Null, or EmptyString.                 *)
(***************************************************************************)
Undefined   == -3000   \* the value of a field the row does not have
EmptyString == -4000   \* ''

ARRIVAL_FIELDS ==
    << "arrival_time", "arrivaltime", "arrivaldatetime", "arrival", "arrival_date_time",
       "arrival_time_utc", "arrival_datetime", "arrival_datetime_utc", "arrival_date_time_utc",
       "arrival_dt", "arrive_time", "arrived_time" >>

DEPARTURE_FIELDS ==
    << "departure_time", "departuretime", "departuredatetime", "departure", "departure_date_time",
       "departure_time_utc", "departure_datetime", "departure_datetime_utc", "departure_date_time_utc",
       "departure_dt", "depart_time", "left_time" >>

BAY_FIELDS == << "bay_id", "bayid", "kerbsideid", "marker_id", "device_id", "sensor_id", "asset_id" >>

\* _pickField(row, names).value: the first of names the row defines
RECURSIVE pickField(_, _)
pickField(row, names) ==
    IF names = <<>> THEN Undefined
    ELSE IF Head(names) \in DOMAIN row THEN row[Head(names)]
    ELSE pickField(row, Tail(names))

\* x ?? ''
OrEmpty(x) == IF x \in {Null, Undefined} THEN EmptyString ELSE x

\* truthiness of a raw field value (a string, null or undefined)
Truthy(x) == x \notin {Null, Undefined, EmptyString}

\* new Date(raw).getTime() of a truthy raw value; BadDate stands for NaN
DateOf(raw) == IF raw >= 0 THEN raw ELSE BadDate

\* _floorHourUTC(t).getTime()
floorHourUTC(t) == t - (t % TicksPerHour)

\* row[k] = v
SetField(row, k, v) == [x \in DOMAIN row \cup {k} |-> IF x = k THEN v ELSE row[x]]

\* a copy that overwrites what the row has
CopyCoord_Overwrite(row, p) ==
    [k \in DOMAIN row \cup (DOMAIN p \cap {"lat", "lon"}) |->
        IF k \in DOMAIN p \cap {"lat", "lon"} THEN p[k] ELSE row[k]]

\* row.lat = row.lat ?? p.lat; row.lon = row.lon ?? p.lon, for the fields p has
CopyCoord(row, p) ==
    LET fill(r, k) ==
            IF k \notin DOMAIN p THEN r
            ELSE IF k \in DOMAIN r /\ r[k] # Null THEN r
            ELSE SetField(r, k, p[k])
    IN  fill(fill(row, "lat"), "lon")

\* _normCoord(row): location is served before geo_point_2d
normCoord(row) ==
    LET r1 == IF "location" \in DOMAIN row THEN CopyCoord(row, row.location) ELSE row
    IN  IF "geo_point_2d" \in DOMAIN r1 THEN CopyCoord(r1, r1.geo_point_2d) ELSE r1

(***************************************************************************)
(* opendatasoft.js: _aggregateEventsToHourly.                              *)
(***************************************************************************)
\* what the loop body derives from one row: whether it is skipped, the
\* hours of its first and last bucket, and its bay as a string
RowSpan(r, start, end) ==
    LET bay    == OrEmpty(pickField(r, BAY_FIELDS))
        arrRaw == pickField(r, ARRIVAL_FIELDS)
        depRaw == pickField(r, DEPARTURE_FIELDS)
        noTime == ~Truthy(arrRaw) /\ ~Truthy(depRaw)
        arr    == DateOf(IF Truthy(arrRaw) THEN arrRaw ELSE depRaw)
        dep    == DateOf(IF Truthy(depRaw) THEN depRaw ELSE arrRaw)
        lo     == Max(arr, start)
        hi     == Min(dep, end)
        t0     == IF hi < lo THEN hi ELSE lo
        t1     == IF hi < lo THEN lo ELSE hi
    IN  [ skipped |-> noTime \/ arr = BadDate \/ dep = BadDate,
          bay     |-> bay,
          h       |-> floorHourUTC(t0),
          hEnd    |-> floorHourUTC(t1) ]

\* the while loop: b.occ += 1 for every hour from h to hEnd
BumpBuckets(buckets, h, hEnd) ==
    LET hours == { k \in h..hEnd : (k - h) % TicksPerHour = 0 }
    IN  [k \in DOMAIN buckets \cup hours |->
            (IF k \in DOMAIN buckets THEN buckets[k] ELSE 0)
          + (IF k \in hours THEN 1 ELSE 0)]

\* the for loop over the rows: the bucket map and the capacity set
RECURSIVE EventBuckets(_, _, _)
EventBuckets(rows, start, end) ==
    IF rows = <<>> THEN [buckets |-> <<>>, capacitySet |-> {}]
    ELSE LET acc == EventBuckets(SubSeq(rows, 1, Len(rows) - 1), start, end)
             s   == RowSpan(rows[Len(rows)], start, end)
         IN  IF s.skipped THEN acc
             ELSE [ buckets     |-> BumpBuckets(acc.buckets, s.h, s.hEnd),
                    capacitySet |-> IF s.bay # EmptyString
                                    THEN acc.capacitySet \cup {s.bay}
                                    ELSE acc.capacitySet ]

\* Math.min(b.occ, capacity)
CappedOcc_Uncapped(occ, capacity) == occ

CappedOcc(occ, capacity) == Min(occ, capacity)

\* a point whose free is not floored at 0
SeriesPoint_RawFree(ts, rawOcc, capacity) ==
    [ts |-> ts, occ |-> CappedOcc(rawOcc, capacity), total |-> capacity, free |-> capacity - rawOcc]

\* { ts: b.ts, occ, total: capacity, free: Math.max(0, capacity - occ) }
SeriesPoint(ts, rawOcc, capacity) ==
    LET occ == CappedOcc(rawOcc, capacity)
    IN  [ts |-> ts, occ |-> occ, total |-> capacity, free |-> Max(0, capacity - occ)]

\* the buckets sorted by ts and mapped to points
RECURSIVE SortedSeries(_, _, _)
SortedSeries(buckets, keys, capacity) ==
    IF keys = {} THEN <<>>
    ELSE LET k == CHOOSE x \in keys : \A y \in keys : x <= y
         IN  <<SeriesPoint(k, buckets[k], capacity)>>
             \o SortedSeries(buckets, keys \ {k}, capacity)

aggregateEventsToHourly(rows, start, end) ==
    LET acc      == EventBuckets(rows, start, end)
        capacity == Cardinality(acc.capacitySet)
    IN  [ capacity |-> capacity,
          series   |-> SortedSeries(acc.buckets, DOMAIN acc.buckets, capacity) ]

\* event rows; 20 is 10:00 and 25 is 12:30 of the first day
EventRowSet ==
    { [bay_id |-> 1, arrival_time |-> 20, departure_time |-> 25],
      [bay_id |-> 1, arrival_time |-> 21, departure_time |-> 23, recordid |-> 7],
      [kerbsideid |-> 2, arrivaltime |-> 23, left_time |-> 22],
      [bay_id |-> 3, arrival_time |-> 50, departure_time |-> 53],
      [bay_id |-> 4, location |-> [lat |-> 5, lon |-> 6], lat |-> Null],
      [bay_id |-> 5, arrival_time |-> BadDate],
      [arrival_time |-> 22, departure_time |-> Null, bay_id |-> Null] }

\* windows <<start, end>>: one day, an hour and a half off the hour, inverted
AggWindowSet == { <<0, 48>>, <<21, 24>>, <<26, 20>> }

AggInit ==
    /\ aggPc = "input"
    /\ aggRows = <<>>
    /\ aggWindow = <<0, 0>>
    /\ aggOut = [capacity |-> 0, series |-> <<>>]

AggAddRow ==
    /\ aggPc = "input"
    /\ Len(aggRows) < MaxEvents
    /\ \E r \in EventRowSet : aggRows' = Append(aggRows, r)
    /\ UNCHANGED <<aggPc, aggWindow, aggOut>>
    /\ UNCHANGED aggOthers

\* the call, on the rows collected and a window
AggCall ==
    /\ aggPc = "input"
    /\ aggPc' = "done"
    /\ \E w \in AggWindowSet :
         /\ aggWindow' = w
         /\ aggOut' = aggregateEventsToHourly(aggRows, w[1], w[2])
    /\ UNCHANGED aggRows
    /\ UNCHANGED aggOthers

AggNext == AggAddRow \/ AggCall

\* the span the row is stated to cover: the hours from that of
\* max(arrival, start) to that of min(departure, end)
StatedHours(r, start, end) ==
    LET arrRaw == pickField(r, ARRIVAL_FIELDS)
        depRaw == pickField(r, DEPARTURE_FIELDS)
        arr    == DateOf(IF Truthy(arrRaw) THEN arrRaw ELSE depRaw)
        dep    == DateOf(IF Truthy(depRaw) THEN depRaw ELSE arrRaw)
    IN  IF (~Truthy(arrRaw) /\ ~Truthy(depRaw)) \/ arr = BadDate \/ dep = BadDate THEN {}
        ELSE { h \in floorHourUTC(Max(arr, start)) .. floorHourUTC(Min(dep, end)) :
                 h % TicksPerHour = 0 }

StatedBays(rows) ==
    { OrEmpty(pickField(rows[i], BAY_FIELDS)) : i \in 1..Len(rows) } \ {EmptyString}

\* C4: each row adds exactly one to the count of every hour bucket from the hour of
\* max(arrival, start) to the hour of min(departure, end), no bucket gets anything else,
\* and capacity is the number of distinct non-empty bay identifiers among the rows
C4_OnePerRowPerHour ==
    aggPc = "done" =>
        LET acc == EventBuckets(aggRows, aggWindow[1], aggWindow[2])
            stated(h) == Cardinality({ i \in 1..Len(aggRows) :
                                         h \in StatedHours(aggRows[i], aggWindow[1], aggWindow[2]) })
        IN  /\ aggOut.capacity = Cardinality(StatedBays(aggRows))
            /\ \A h \in DOMAIN acc.buckets : acc.buckets[h] = stated(h)
            /\ \A i \in 1..Len(aggRows) :
                 StatedHours(aggRows[i], aggWindow[1], aggWindow[2]) \subseteq DOMAIN acc.buckets
            /\ { aggOut.series[k].ts : k \in 1..Len(aggOut.series) } = DOMAIN acc.buckets

\* C28: for a window with start <= end every bucket of the series of
\* _aggregateEventsToHourly has its ts between the hour of start and the hour of end
C28_BucketsInWindow ==
    (aggPc = "done" /\ aggWindow[1] <= aggWindow[2]) =>
        \A k \in 1..Len(aggOut.series) :
            /\ floorHourUTC(aggWindow[1]) <= aggOut.series[k].ts
            /\ aggOut.series[k].ts <= floorHourUTC(aggWindow[2])

\* the records of the input with finite lat and lng
Located == { k \in 1..Len(areaItems) :
               areaItems[k].lat # NotFinite /\ areaItems[k].lng # NotFinite }

CellTotals == [n \in 1..Len(areaOut1) |-> areaOut1[n].total_bays]

\* C29: aggregateSensorsToAreas conserves capacity: every record with finite lat and lng
\* is counted in exactly one cell, a record without finite coordinates in none, and the
\* total_bays of the cells add up to the capacities of the records with finite
\* coordinates (for records that carry a capacity)
C29_CapacityConserved ==
    (areaPc # "input" /\ \A k \in 1..Len(areaItems) : areaItems[k].capacity # NotFinite) =>
        /\ \A k \in Located :
               Cardinality({ n \in 1..Len(areaOut1) :
                               areaOut1[n].area_id =
                                   latLngToCell(areaItems[k].lat, areaItems[k].lng, areaRes) }) = 1
        /\ \A n \in 1..Len(areaOut1) :
               /\ Members(areaOut1[n]) # {}
               /\ areaOut1[n].total_bays = SumOver(Members(areaOut1[n]), ItemCapacity)
        /\ SumOver(1..Len(areaOut1), CellTotals) = SumOver(Located, ItemCapacity)

\* a bay and a car park of 8 share a cell of 9 bays, and a record without coordinates
\* is left out
C29_Witness ==
    /\ areaPc = "once"
    /\ \A k \in 1..Len(areaItems) : areaItems[k].capacity # NotFinite
    /\ Located # 1..Len(areaItems)
    /\ \E n \in 1..Len(areaOut1) :
         Cardinality(Members(areaOut1[n])) = 2 /\ areaOut1[n].total_bays = 9

(***************************************************************************)
(* opendatasoft.js: the Opendatasoft API as the client sees it.  A request *)
(* either fails (timeout, non-2xx, transport error) or is answered with    *)
(* the rows its where clause, offset and limit select from the dataset.    *)
(***************************************************************************)
ANNUAL_DEFAULTS ==
    << "on-street-car-parking-sensor-data-2019", "on-street-car-parking-sensor-data-2020-jan-may" >>

\* the rows offset+1 .. offset+limit of s
Page(s, offset, limit) ==
    IF offset >= Len(s) THEN <<>> ELSE SubSeq(s, offset + 1, Min(Len(s), offset + limit))

\* field >= "startISO" AND field <= "endISO"
InWindow(v, w) == v >= 0 /\ w[1] <= v /\ v <= w[2]

\* row[k], Undefined when the row has no k
Get(row, k) == IF k \in DOMAIN row THEN row[k] ELSE Undefined

\* the rows of a dataset whose field f lies in the window
EventsWhere(rows, f, w) ==
    LET Test(r) == InWindow(Get(r, f), w) IN SelectSeq(rows, Test)

\* the pedestrian counts of the picked locations, in the window when a time field is given
PedWhere(rows, timeField, ids, w) ==
    LET Test(r) == /\ Get(r, "location_id") \in ids
                   /\ timeField # NoValue => InWindow(Get(r, timeField), w)
    IN  SelectSeq(rows, Test)

\* cands.find(n => keys.includes(n)) || null
RECURSIVE FirstOf(_, _)
FirstOf(cands, keys) ==
    IF cands = <<>> THEN NoValue
    ELSE IF Head(cands) \in keys THEN Head(cands)
    ELSE FirstOf(Tail(cands), keys)

\* row[n1] ?? row[n2] ?? ...
RECURSIVE Coalesce(_, _)
Coalesce(row, names) ==
    IF Len(names) = 1 THEN Get(row, names[1])
    ELSE IF Get(row, Head(names)) \notin {Null, Undefined} THEN Get(row, Head(names))
    ELSE Coalesce(row, Tail(names))

\* the record of all rows normalised
NormAll(rows) == [i \in 1..Len(rows) |-> normCoord(rows[i])]

\* the history of the requests: did any request fail, did any reply hold a row, was a
\* request of the pedestrian proxy issued, the candidates queried for the role fetched
\* last, the freeRatioByH the proxy computed, and the dataset each merged row came from
Note(hist, ok, chunk) ==
    [hist EXCEPT !.failed = hist.failed \/ ~ok, !.data = hist.data \/ (ok /\ Len(chunk) > 0)]

NoteB(hist, ok, chunk) == [Note(hist, ok, chunk) EXCEPT !.tierB = TRUE]

(***************************************************************************)
(* opendatasoft.js: _fetchAnnualEventsOverlaps (Tier A).                   *)
(***************************************************************************)
\* _detectTimeFields: the fields of the first row of the dataset
Detected(rows) ==
    LET keys == IF Len(rows) > 0 THEN DOMAIN rows[1] ELSE {}
    IN  [arrival |-> FirstOf(ARRIVAL_FIELDS, keys), departure |-> FirstOf(DEPARTURE_FIELDS, keys)]

ArrivalCandidates ==
    IF annDetected.arrival # NoValue THEN <<annDetected.arrival>> ELSE ARRIVAL_FIELDS

DepartureCandidates ==
    IF annDetected.departure # NoValue THEN <<annDetected.departure>> ELSE DEPARTURE_FIELDS

\* the dedup key of a row of dataset ds
RowKey(ds, r) ==
    IF Truthy(Get(r, "recordid")) THEN <<ds, 1, r.recordid, 0, 0>>
    ELSE <<ds, 0, OrEmpty(pickField(r, BAY_FIELDS)), OrEmpty(pickField(r, ARRIVAL_FIELDS)),
           OrEmpty(pickField(r, DEPARTURE_FIELDS))>>

\* a merge that pushes every row
Dedup_KeepAll(rows, ds, out, seen) == [out |-> out \o rows, seen |-> seen]

\* step 5 of the dataset loop: rows not seen yet are pushed to out
RECURSIVE Dedup(_, _, _, _)
Dedup(rows, ds, out, seen) ==
    IF rows = <<>> THEN [out |-> out, seen |-> seen]
    ELSE IF RowKey(ds, Head(rows)) \in seen THEN Dedup(Tail(rows), ds, out, seen)
    ELSE Dedup(Tail(rows), ds, Append(out, Head(rows)), seen \cup {RowKey(ds, Head(rows))})

AnnDetect ==
    /\ annPc = "detect"
    /\ \E ok \in BOOLEAN :
         LET rows == IF ok THEN Page(upstream.events[annDs], 0, 1) ELSE <<>>
         IN  /\ annDetected' = Detected(rows)
             /\ annHist' = Note(annHist, ok, rows)
    /\ annPc' = "arrival"
    /\ annCand' = 1
    /\ annPart' = <<>>
    /\ annRows' = <<>>
    /\ UNCHANGED <<annWorld, annDs, annOut, annSeen, annTierB, annResult>>
    /\ UNCHANGED annOthers

\* if (part.length) { rows.push(...part); break; }
Found_Never(part) == FALSE

Found(part) == Len(part) > 0

\* one page request of _fetchAnnualRangeOnce for candidate cands[annCand], and what the
\* candidate loop of the caller does when the paging ends or throws
RangePage(role, cands, nextPc) ==
    LET f        == cands[annCand]
        pageSize == Min(PAGE_MAX, LimitPerDataset - Len(annPart))
        chunk    == Page(EventsWhere(upstream.events[annDs], f, annWindow), Len(annPart), pageSize)
        results  == annPart \o NormAll(chunk)
        more     == Len(chunk) > 0 /\ Len(chunk) >= pageSize /\ Len(results) < LimitPerDataset
        before   == IF annCand = 1 /\ annPart = <<>> THEN <<>> ELSE annHist.tried
    IN  \E ok \in BOOLEAN :
          /\ IF ok /\ more
             THEN /\ annPart' = results
                  /\ annHist' = [Note(annHist, ok, chunk) EXCEPT !.tried = before]
                  /\ UNCHANGED <<annPc, annCand, annRows>>
             ELSE LET part == IF ok THEN results ELSE <<>>
                      done == [role |-> role, detected |-> annDetected[role], field |-> f,
                               rows |-> Len(part) > 0]
                  IN  /\ annHist' = [Note(annHist, ok, chunk) EXCEPT !.tried = Append(before, done)]
                      /\ IF Found(part) \/ annCand = Len(cands)
                         THEN /\ annRows' = annRows \o part
                              /\ annPc' = nextPc
                              /\ annCand' = 1
                              /\ annPart' = <<>>
                         ELSE /\ annCand' = annCand + 1
                              /\ annPart' = <<>>
                              /\ UNCHANGED <<annPc, annRows>>

AnnArrivalPage ==
    /\ annPc = "arrival"
    /\ RangePage("arrival", ArrivalCandidates, "departure")
    /\ UNCHANGED <<annWorld, annDs, annDetected, annOut, annSeen, annTierB, annResult>>
    /\ UNCHANGED annOthers

AnnDeparturePage ==
    /\ annPc = "departure"
    /\ RangePage("departure", DepartureCandidates, "merge")
    /\ UNCHANGED <<annWorld, annDs, annDetected, annOut, annSeen, annTierB, annResult>>
    /\ UNCHANGED annOthers

AnnMerge ==
    /\ annPc = "merge"
    /\ LET d == Dedup(annRows, annDs, annOut, annSeen)
       IN  /\ annOut' = d.out /\ annSeen' = d.seen
           /\ annHist' = [annHist EXCEPT
                             !.from = @ \o [i \in 1..(Len(d.out) - Len(annOut)) |-> annDs]]
    /\ IF annDs < Len(ANNUAL_DEFAULTS)
       THEN annDs' = annDs + 1 /\ annPc' = "detect"
       ELSE annPc' = "aggregate" /\ UNCHANGED annDs
    /\ UNCHANGED <<annWorld, annDetected, annCand, annPart, annRows, annTierB, annResult>>
    /\ UNCHANGED annOthers

\* Array.isArray(series) && series.length && capacity > 0
Usable_Never(a) == FALSE

Usable(a) == Len(a.series) > 0 /\ a.capacity > 0

\* fetchAnnualHourlyByRadius, step 1: Tier A is returned when it is usable
AnnAggregate ==
    /\ annPc = "aggregate"
    /\ LET a == aggregateEventsToHourly(annOut, annWindow[1], annWindow[2])
       IN  IF Usable(a)
           THEN /\ annResult' = [tier |-> "A", capacity |-> a.capacity, series |-> a.series]
                /\ annPc' = "returned"
           ELSE /\ annPc' = "live"
                /\ UNCHANGED annResult
    /\ UNCHANGED <<annWorld, annTierA, annTierB, annHist>>
    /\ UNCHANGED annOthers

(***************************************************************************)
(* opendatasoft.js: _proxyAnnualByPedestrian (Tier B) and the synthetic    *)
(* curve (Tier C).                                                         *)
(***************************************************************************)
DefaultCapacity == 60
AnnOrigin       == 0     \* lat of the request; every point lies on its meridian

LIVE_ID_FIELDS  == << "kerbsideid", "bay_id", "bayid", "marker_id", "sensor", "asset_id", "device_id", "id" >>
LOC_ID_FIELDS   == << "location_id", "sensor_id", "id", "recordid" >>
HOUR_FIELDS     == << "hourday", "hour", "hod" >>
TimeCandidates  == << "sensing_date", "date_time", "datetime", "timestamp", "date" >>
CountCandidates == << "pedestriancount", "pedestrian_count", "hourly_count", "hourlycount", "count", "total" >>

\* ids.size after the loop over the live rows
LiveCapacity(live) ==
    Cardinality({ Coalesce(live[i], LIVE_ID_FIELDS) : i \in 1..Len(live) } \ {Null, Undefined})

\* the entry of locs for a location row: lat is NotFinite for NaN
LocOf(r) ==
    LET p   == IF "location" \in DOMAIN r THEN r.location
               ELSE IF "geo_point_2d" \in DOMAIN r THEN r.geo_point_2d
               ELSE [k \in {} |-> 0]
        num(v) == IF v \in {Null, Undefined} THEN NotFinite ELSE v
    IN  [ id  |-> Coalesce(r, LOC_ID_FIELDS),
          lat |-> num(Get(p, "lat")),
          lng |-> num(Coalesce(p, <<"lon", "lng">>)) ]

\* dist(a, b) of two points of one meridian
dist(a, b) == Abs(b - a)

\* locs.sort by distance to the request, stable
RECURSIVE InsertByDist(_, _)
InsertByDist(x, s) ==
    IF s = <<>> THEN <<x>>
    ELSE IF dist(AnnOrigin, x.lat) < dist(AnnOrigin, Head(s).lat) THEN <<x>> \o s
    ELSE <<Head(s)>> \o InsertByDist(x, Tail(s))

RECURSIVE SortByDist(_)
SortByDist(s) ==
    IF s = <<>> THEN <<>>
    ELSE InsertByDist(s[Len(s)], SortByDist(SubSeq(s, 1, Len(s) - 1)))

\* picked: the nearest locations with finite coordinates
Picked(locRows) ==
    LET Finite(p) == p.lat # NotFinite /\ p.lng # NotFinite
        locs      == SortByDist(SelectSeq([i \in 1..Len(locRows) |-> LocOf(locRows[i])], Finite))
    IN  SubSeq(locs, 1, Min(Len(locs), MaxPicked))

\* the shape of the synthetic curve
Shape(h) ==
    IF h >= 7 /\ h <= 9 THEN Rat(15, 100)
    ELSE IF h >= 10 /\ h <= 15 THEN Rat(4, 10)
    ELSE IF h >= 16 /\ h <= 19 THEN Rat(2, 10)
    ELSE Rat(7, 10)

\* one point of a proxy series
ProxyPoint(t, cap, ratio) ==
    LET free == Max(0, Min(cap, MathRound(RMul(RInt(cap), ratio))))
    IN  [ts |-> t, free |-> free, occ |-> cap - free, total |-> cap]

\* for (t = start; t <= end; t += 1 hour)
RECURSIVE HourlySeries(_, _, _, _)
HourlySeries(t, end, cap, ratioByH) ==
    IF t > end THEN <<>>
    ELSE <<ProxyPoint(t, cap, ratioByH[UTCHours(t)])>>
         \o HourlySeries(t + TicksPerHour, end, cap, ratioByH)

ShapeByH == [h \in 0..(HoursPerDay - 1) |-> Shape(h)]

\* the hour and the count the profile loop reads from a pedestrian row
PedHour(r, timeField) ==
    LET hVal == Coalesce(r, HOUR_FIELDS)
        raw  == IF timeField # NoValue THEN Get(r, timeField) ELSE Undefined
    IN  IF hVal = Undefined /\ Truthy(raw) /\ DateOf(raw) # BadDate THEN UTCHours(DateOf(raw))
        ELSE IF hVal = Undefined THEN NotFinite
        ELSE IF hVal = Null THEN 0
        ELSE hVal

PedCount(r, countField) ==
    LET own == IF countField # NoValue THEN Get(r, countField) ELSE Undefined
        c   == IF own \notin {Null, Undefined} THEN own ELSE Coalesce(r, CountCandidates)
    IN  IF c = Undefined THEN NotFinite ELSE IF c = Null THEN 0 ELSE c

\* means[h]
HodMean(rows, fields, h) ==
    LET Used(r) == /\ PedHour(r, fields.time) = h
                   /\ PedCount(r, fields.count) # NotFinite
        used    == SelectSeq(rows, Used)
    IN  IF Len(used) = 0 THEN RInt(0)
        ELSE RMul(RSum([i \in 1..Len(used) |-> RInt(PedCount(used[i], fields.count))]),
                  Rat(1, Len(used)))

\* a largest mean that ignores the means
MaxMean_One(means) == RInt(1)

\* Math.max(1, ...means)
MaxMean(means) ==
    LET all == { means[h] : h \in DOMAIN means } \cup {RInt(1)}
    IN  CHOOSE m \in all : \A x \in all : RLeq(x, m)

\* freeRatioByH
FreeRatioByH(rows, fields) ==
    LET means   == [h \in 0..(HoursPerDay - 1) |-> HodMean(rows, fields, h)]
        maxMean == MaxMean(means)
    IN  [h \in 0..(HoursPerDay - 1) |->
           RMin(RInt(1), RMax(Rat(1, 10),
                RSub(RInt(1), RMul(Rat(9, 10), RMul(means[h], Rat(maxMean.d, maxMean.n))))))]

\* fetchAnnualHourlyByRadius, step 2: what is returned for the result of the proxy
Finish(proxy, w, tier) ==
    LET cap == IF proxy.capacity > 0 THEN proxy.capacity ELSE DefaultCapacity
    IN  [ tier     |-> tier,
          capacity |-> cap,
          series   |-> IF Len(proxy.series) > 0 THEN proxy.series
                       ELSE HourlySeries(w[1], w[2], cap, ShapeByH) ]

\* one page request of fetchLiveSensors; the count stays 0 when it throws
AnnLivePage ==
    /\ annPc = "live"
    /\ LET pageSize == Min(PAGE_MAX, LiveLimit - Len(annLive))
           chunk    == Page(upstream.live, Len(annLive), pageSize)
           results  == annLive \o chunk
           more     == Len(chunk) > 0 /\ Len(chunk) >= pageSize /\ Len(results) < LiveLimit
       IN  \E ok \in BOOLEAN :
             /\ annHist' = NoteB(annHist, ok, chunk)
             /\ IF ok /\ more
                THEN annLive' = results /\ UNCHANGED <<annPc, annCapacity>>
                ELSE /\ annPc' = "locations"
                     /\ annLive' = IF ok THEN results ELSE annLive
                     /\ annCapacity' = IF ok THEN LiveCapacity(NormAll(results)) ELSE 0
    /\ UNCHANGED <<annWorld, annTierA, annPicked, annFields, annPedRows, annRetryRows, annResult>>
    /\ UNCHANGED annOthers

\* the request for the pedestrian sensor locations, outside any try
AnnLocations ==
    /\ annPc = "locations"
    /\ \E ok \in BOOLEAN :
         /\ annHist' = NoteB(annHist, ok, upstream.locs)
         /\ IF ~ok
            THEN annPc' = "rejected" /\ UNCHANGED <<annPicked, annResult>>
            ELSE LET picked == Picked(upstream.locs)
                     cap    == IF annCapacity > 0 THEN annCapacity ELSE DefaultCapacity
                 IN  IF Len(picked) = 0
                     THEN /\ annResult' =
                               Finish([capacity |-> cap,
                                       series   |-> HourlySeries(annWindow[1], annWindow[2], cap, ShapeByH)],
                                      annWindow, "C")
                          /\ annPc' = "returned"
                          /\ UNCHANGED annPicked
                     ELSE /\ annPicked' = { picked[i].id : i \in 1..Len(picked) }
                          /\ annPc' = "probe"
                          /\ UNCHANGED annResult
    /\ UNCHANGED <<annWorld, annTierA, annLive, annCapacity, annFields, annPedRows, annRetryRows>>
    /\ UNCHANGED annOthers

\* the probe for the time and count fields of the pedestrian counts
AnnProbe ==
    /\ annPc = "probe"
    /\ \E ok \in BOOLEAN :
         LET sample == IF ok THEN Page(upstream.ped, 0, 1) ELSE <<>>
             keys   == IF Len(sample) > 0 THEN DOMAIN sample[1] ELSE {}
         IN  /\ annFields' = [time  |-> FirstOf(TimeCandidates, keys),
                              count |-> FirstOf(CountCandidates, keys)]
             /\ annHist' = NoteB(annHist, ok, sample)
    /\ annPc' = "counts"
    /\ UNCHANGED <<annWorld, annTierA, annLive, annCapacity, annPicked, annPedRows, annRetryRows, annResult>>
    /\ UNCHANGED annOthers

\* one page request of the pedestrian-count loop
AnnCountsPage ==
    /\ annPc = "counts"
    /\ LET chunk == Page(PedWhere(upstream.ped, annFields.time, annPicked, annWindow),
                         Len(annPedRows), PAGE_MAX)
           rows  == annPedRows \o chunk
           more  == Len(chunk) > 0 /\ Len(chunk) >= PAGE_MAX /\ Len(rows) < OffsetCap
       IN  \E ok \in BOOLEAN :
             /\ annHist' = NoteB(annHist, ok, chunk)
             /\ IF ok
                THEN /\ annPedRows' = rows
                     /\ annPc' = IF more THEN "counts" ELSE "profile"
                     /\ UNCHANGED annFields
                ELSE /\ annPc' = IF annFields.time # NoValue THEN "retry" ELSE "profile"
                     /\ annFields' = [annFields EXCEPT !.time = NoValue]
                     /\ UNCHANGED annPedRows
    /\ UNCHANGED <<annWorld, annTierA, annLive, annCapacity, annPicked, annRetryRows, annResult>>
    /\ UNCHANGED annOthers

\* one page request of the loop inside the catch, outside any try
AnnRetryPage ==
    /\ annPc = "retry"
    /\ LET chunk == Page(PedWhere(upstream.ped, NoValue, annPicked, annWindow),
                         Len(annRetryRows), PAGE_MAX)
           rows2 == annRetryRows \o chunk
           more  == Len(chunk) > 0 /\ Len(chunk) >= PAGE_MAX /\ Len(rows2) < OffsetCap
       IN  \E ok \in BOOLEAN :
             /\ annHist' = NoteB(annHist, ok, chunk)
             /\ IF ~ok THEN annPc' = "rejected" /\ UNCHANGED <<annPedRows, annRetryRows>>
                ELSE IF more THEN annRetryRows' = rows2 /\ UNCHANGED <<annPc, annPedRows>>
                ELSE /\ annRetryRows' = rows2
                     /\ annPedRows' = annPedRows \o rows2
                     /\ annPc' = "profile"
    /\ UNCHANGED <<annWorld, annTierA, annLive, annCapacity, annPicked, annFields, annResult>>
    /\ UNCHANGED annOthers

\* steps 4 and 5 of the proxy, and the return of fetchAnnualHourlyByRadius
AnnProfile ==
    /\ annPc = "profile"
    /\ LET cap          == IF annCapacity > 0 THEN annCapacity ELSE DefaultCapacity
           freeRatioByH == FreeRatioByH(annPedRows, annFields)
       IN  /\ annResult' =
                Finish([capacity |-> cap,
                        series   |-> HourlySeries(annWindow[1], annWindow[2], cap, freeRatioByH)],
                       annWindow, "B")
           /\ annHist' = [annHist EXCEPT !.ratio = freeRatioByH]
    /\ annPc' = "returned"
    /\ UNCHANGED <<annWorld, annTierA, annTierB>>
    /\ UNCHANGED annOthers

(***************************************************************************)
(* fetchAnnualHourlyByRadius: the call and the upstream it meets.          *)
(***************************************************************************)
AnnWindowSet == { <<20, 26>>, <<21, 24>>, <<26, 20>> }

UpEventsSet ==
    { << <<>>, <<>> >>,
      << << [bay_id |-> 1, arrival_time |-> 20, departure_time |-> 25],
            [bay_id |-> 1, arrival_time |-> 21, departure_time |-> 23, recordid |-> 7],
            [bay_id |-> 3, arrival_time |-> 50, departure_time |-> 53] >>,
         << [kerbsideid |-> 2, arrivaltime |-> 23, left_time |-> 22,
             location |-> [lat |-> 5, lon |-> 6], lat |-> Null] >> >> }

UpLiveSet ==
    { <<>>,
      << [kerbsideid |-> 1], [bay_id |-> 1, geo_point_2d |-> [lat |-> 5, lon |-> 6]],
         [id |-> 2, kerbsideid |-> Null], [device_id |-> 3] >> }

UpLocsSet ==
    { <<>>,
      << [location_id |-> 1, location |-> [lat |-> 30, lon |-> 0]],
         [sensor_id |-> 9],
         [location_id |-> 2, geo_point_2d |-> [lat |-> 10, lon |-> 0]],
         [location_id |-> 3, location |-> [lat |-> -20, lng |-> 0]] >> }

UpPedSet ==
    { <<>>,
      << [location_id |-> 2, sensing_date |-> 20, hourday |-> 10, pedestriancount |-> 30],
         [location_id |-> 3, sensing_date |-> 22, total |-> 90],
         [location_id |-> 1, sensing_date |-> 22, hourday |-> 11, pedestriancount |-> 50],
         [location_id |-> 2, sensing_date |-> 100, hourday |-> 2, pedestriancount |-> Null] >>,
      << [location_id |-> 2, sensing_date |-> 22, pedestriancount |-> 1],
         [location_id |-> 2, sensing_date |-> 23, pedestriancount |-> 0] >> }

AnnInit ==
    /\ annPc = "idle"
    /\ annWindow = <<0, 0>>
    /\ upstream = [events |-> << <<>>, <<>> >>, live |-> <<>>, locs |-> <<>>, ped |-> <<>>]
    /\ annDs = 1
    /\ annDetected = [arrival |-> NoValue, departure |-> NoValue]
    /\ annCand = 1
    /\ annPart = <<>>
    /\ annRows = <<>>
    /\ annOut = <<>>
    /\ annSeen = {}
    /\ annLive = <<>>
    /\ annCapacity = 0
    /\ annPicked = {}
    /\ annFields = [time |-> NoValue, count |-> NoValue]
    /\ annPedRows = <<>>
    /\ annRetryRows = <<>>
    /\ annResult = [tier |-> NoValue, capacity |-> 0, series |-> <<>>]
    /\ annHist = [failed |-> FALSE, data |-> FALSE, tierB |-> FALSE, tried |-> <<>>,
                  ratio |-> <<>>, from |-> <<>>]

\* the call arrives: its window, and the datasets it will meet upstream
AnnCall ==
    /\ annPc = "idle"
    /\ annPc' = "detect"
    /\ annWindow' \in AnnWindowSet
    /\ upstream' \in [events : UpEventsSet, live : UpLiveSet, locs : UpLocsSet, ped : UpPedSet]
    /\ UNCHANGED <<annTierA, annTierB, annResult, annHist>>
    /\ UNCHANGED annOthers

AnnNext ==
    \/ AnnCall
    \/ AnnDetect
    \/ AnnArrivalPage
    \/ AnnDeparturePage
    \/ AnnMerge
    \/ AnnAggregate
    \/ AnnLivePage
    \/ AnnLocations
    \/ AnnProbe
    \/ AnnCountsPage
    \/ AnnRetryPage
    \/ AnnProfile

AnnDone == annPc \in {"returned", "rejected"}

\* C2: when every upstream reply is empty the call completes with a non-empty series
\* and capacity > 0
C2_EmptyUpstreamStillServes ==
    (AnnDone /\ ~annHist.failed /\ ~annHist.data) =>
        /\ annPc = "returned"
        /\ Len(annResult.series) > 0
        /\ annResult.capacity > 0

\* C3: whatever requests fail, the call never rejects
C3_NeverRejects == annPc # "rejected"

\* C5: every bucket of a returned series has 0 <= occ <= total and total = capacity, and a
\* Tier A bucket hit by more rows than there are distinct bays reports occ = capacity
C5_OccWithinTotal ==
    annPc = "returned" =>
        /\ \A k \in 1..Len(annResult.series) :
             LET b == annResult.series[k]
             IN  0 <= b.occ /\ b.occ <= b.total /\ b.total = annResult.capacity
        /\ annResult.tier = "A" =>
             LET acc == EventBuckets(annOut, annWindow[1], annWindow[2])
             IN  \A k \in 1..Len(annResult.series) :
                   LET b == annResult.series[k]
                   IN  acc.buckets[b.ts] > Cardinality(acc.capacitySet) =>
                         b.occ = annResult.capacity

\* C5 witness: a Tier A result with a bucket hit by more rows than there are bays
C5_Witness ==
    /\ annPc = "returned"
    /\ annResult.tier = "A"
    /\ LET acc == EventBuckets(annOut, annWindow[1], annWindow[2])
       IN  \E k \in 1..Len(annResult.series) :
             acc.buckets[annResult.series[k].ts] > annResult.capacity

\* C19: the tiers run in order and short-circuit: no request of the pedestrian proxy is
\* issued before Tier A has finished, nor when Tier A gave a non-empty series with
\* capacity > 0, and such a Tier A result is returned as it is
C19_TiersShortCircuit ==
    LET a      == aggregateEventsToHourly(annOut, annWindow[1], annWindow[2])
        usable == Len(a.series) > 0 /\ a.capacity > 0
    IN  /\ annPc \in {"idle", "detect", "arrival", "departure", "merge", "aggregate"} =>
              ~annHist.tierB
        /\ annPc \in {"live", "locations", "probe", "counts", "retry", "profile"} => ~usable
        /\ annHist.tierB => ~usable
        /\ (annPc = "returned" /\ usable) =>
              /\ annResult = [tier |-> "A", capacity |-> a.capacity, series |-> a.series]
              /\ ~annHist.tierB

\* Tier A, with a request that failed on its way, gave a usable series and was returned
C19_Witness ==
    /\ annPc = "returned"
    /\ annHist.failed
    /\ annResult.tier = "A"
    /\ Len(annResult.series) > 0
    /\ annResult.capacity > 0

\* the candidate names of a role
RoleFields(role) == IF role = "arrival" THEN ARRIVAL_FIELDS ELSE DEPARTURE_FIELDS

\* C20: when detection gave no field for a role, its candidates are queried in priority
\* order, each only after all earlier ones returned no rows or failed, and none after
\* the first that returned rows
C20_CandidatesInOrder ==
    LET t == annHist.tried
    IN  /\ \A i \in 1..Len(t) :
              /\ t[i].role = t[1].role
              /\ t[i].detected = NoValue =>
                    /\ t[i].field = RoleFields(t[i].role)[i]
                    /\ i < Len(t) => ~t[i].rows
        /\ ( /\ annPc \in {"arrival", "departure"}
             /\ annCand > 1 \/ annPart # <<>>
             /\ annDetected[annPc] = NoValue ) =>
              /\ annCand = Len(t) + 1
              /\ \A i \in 1..Len(t) : t[i].role = annPc /\ ~t[i].rows

\* detection gave nothing, the first candidate gave no rows, a later one did
C20_Witness ==
    LET t == annHist.tried
    IN  /\ Len(t) >= 2
        /\ t[1].detected = NoValue
        /\ ~t[1].rows
        /\ t[Len(t)].rows

\* C21: when Tier A is unusable and either no pedestrian sensor is found or the
\* pedestrian-count query returns no rows, the returned series is the synthetic
\* diurnal curve: free = round(capacity * shape(hour)) in every bucket
C21_SyntheticWhenNoCounts ==
    (annPc = "returned" /\ annResult.tier # "A" /\ (annPicked = {} \/ annPedRows = <<>>)) =>
        \A i \in 1..Len(annResult.series) :
            LET b == annResult.series[i]
            IN  b.free = MathRound(RMul(RInt(annResult.capacity), Shape(UTCHours(b.ts))))

\* C22: every bucket of every returned series, from any tier and for any window, has a ts
\* aligned to the UTC hour, and no two buckets of a series share a ts
C22_HourAlignedDistinct ==
    annPc = "returned" =>
        LET s == annResult.series
        IN  /\ \A i \in 1..Len(s) : s[i].ts % TicksPerHour = 0
            /\ \A i, j \in 1..Len(s) : s[i].ts = s[j].ts => i = j

\* the 24 hourly means of the pedestrian rows the proxy read, and the largest of them
PedMeans == [h \in 0..(HoursPerDay - 1) |-> HodMean(annPedRows, annFields, h)]

LargestMean == CHOOSE m \in { PedMeans[h] : h \in DOMAIN PedMeans } :
                   \A h \in DOMAIN PedMeans : RLeq(PedMeans[h], m)

\* clamp(1 - 0.9 * mean / maxMeanCount, 0.10, 1.0)
RatioFor(mean, maxMeanCount) ==
    RMin(RInt(1), RMax(Rat(1, 10),
         RSub(RInt(1), RMul(Rat(9, 10), RMul(mean, Rat(maxMeanCount.d, maxMeanCount.n))))))

\* C23: the Tier B free ratio of every hour of day is
\* clamp(1 - 0.9 * meanCount(h) / maxMeanCount, 0.10, 1.0), where maxMeanCount is the
\* largest of the 24 hourly means and at least 1; every ratio lies in [0.10, 1.0], and the
\* hour with the largest mean gets 0.10 when that mean is at least 1
C23_FreeRatio ==
    (annPc = "returned" /\ annResult.tier = "B") =>
        \A h \in 0..(HoursPerDay - 1) :
            /\ annHist.ratio[h] = RatioFor(PedMeans[h], RMax(RInt(1), LargestMean))
            /\ RLeq(Rat(1, 10), annHist.ratio[h]) /\ RLeq(annHist.ratio[h], RInt(1))
            /\ (PedMeans[h] = LargestMean /\ RLeq(RInt(1), LargestMean)) =>
                   annHist.ratio[h] = Rat(1, 10)

\* C23 as stated: maxMeanCount is the largest of the 24 hourly means, so the hour with the
\* largest mean count gets 0.10 (read for rows with a positive largest mean)
C23_AsStated ==
    (annPc = "returned" /\ annResult.tier = "B" /\ RLt(RInt(0), LargestMean)) =>
        \A h \in 0..(HoursPerDay - 1) :
            /\ annHist.ratio[h] = RatioFor(PedMeans[h], LargestMean)
            /\ PedMeans[h] = LargestMean => annHist.ratio[h] = Rat(1, 10)

\* a Tier B profile whose busiest hour has a mean of at least 1, next to a quieter hour
\* with a ratio strictly between the bounds
C23_Witness ==
    /\ annPc = "returned" /\ annResult.tier = "B"
    /\ RLeq(RInt(1), LargestMean)
    /\ \E h \in 0..(HoursPerDay - 1) :
           RLt(Rat(1, 10), annHist.ratio[h]) /\ RLt(annHist.ratio[h], RInt(1))

\* the identity of an event row: its recordid when it has one, otherwise its bay, arrival
\* and departure
HasRecordId(r) == "recordid" \in DOMAIN r /\ Truthy(r.recordid)

SameIdentity(a, b) ==
    IF HasRecordId(a) \/ HasRecordId(b)
    THEN HasRecordId(a) /\ HasRecordId(b) /\ a.recordid = b.recordid
    ELSE /\ pickField(a, BAY_FIELDS) = pickField(b, BAY_FIELDS)
         /\ pickField(a, ARRIVAL_FIELDS) = pickField(b, ARRIVAL_FIELDS)
         /\ pickField(a, DEPARTURE_FIELDS) = pickField(b, DEPARTURE_FIELDS)

\* C24: the list of _fetchAnnualEventsOverlaps holds no two rows of one dataset with the
\* same identity, and every row fetched for the dataset merged last is in the list
C24_NoDuplicateRows ==
    /\ Len(annHist.from) = Len(annOut)
    /\ \A i, j \in 1..Len(annOut) :
           (annHist.from[i] = annHist.from[j] /\ SameIdentity(annOut[i], annOut[j])) => i = j
    /\ annPc \in {"detect", "aggregate"} =>
           \A k \in 1..Len(annRows) : \E i \in 1..Len(annOut) : SameIdentity(annOut[i], annRows[k])

\* a row fetched by the arrival query and again by the departure query was merged, and
\* the list holds it once
C24_Witness ==
    /\ annPc = "detect" /\ annDs = 2
    /\ \E k, l \in 1..Len(annRows) :
           /\ k < l /\ annRows[k] = annRows[l]
           /\ Cardinality({ i \in 1..Len(annOut) : annOut[i] = annRows[k] }) = 1
    /\ Len(annOut) > 1

\* the free ratios of the rows of hour-of-day h that carry a valid ts
HourSamples(h) ==
    LET OfHour(r) == r.ts # BadDate /\ UTCHours(r.ts) = h
        rows      == SelectSeq(hodRows, OfHour)
    IN  [i \in 1..Len(rows) |-> RowFreeRatio(rows[i])]

InUnit(x) == RLeq(RInt(0), x) /\ RLeq(x, RInt(1))

\* C26: buildHodProfile returns 24 entries of mean, q10 and q90, all in [0, 1]; an hour of
\* day with no sample gets exactly 0.5, 0.25 and 0.9, and an hour with samples gets the
\* arithmetic mean of its free ratios, with q10 <= q90 (checked on the profile as it is
\* returned; the forecast that follows reads it only)
C26_ProfileInUnit ==
    hodPc = "built" =>
        /\ DOMAIN hodProfile.mean = 0..23
        /\ DOMAIN hodProfile.q10 = 0..23
        /\ DOMAIN hodProfile.q90 = 0..23
        /\ \A h \in 0..23 :
               LET samples == HourSamples(h)
               IN  /\ InUnit(hodProfile.mean[h])
                   /\ InUnit(hodProfile.q10[h])
                   /\ InUnit(hodProfile.q90[h])
                   /\ IF Len(samples) = 0
                      THEN /\ hodProfile.mean[h] = Rat(1, 2)
                           /\ hodProfile.q10[h] = Rat(1, 4)
                           /\ hodProfile.q90[h] = Rat(9, 10)
                      ELSE /\ hodProfile.mean[h] = RMul(RSum(samples), Rat(1, Len(samples)))
                           /\ RLeq(hodProfile.q10[h], hodProfile.q90[h])

\* a profile built from rows of hour 1, some with half the bays free and some whose free
\* exceeds their total: a mean strictly inside the unit interval, q10 below q90, and the
\* other hours at their defaults
C26_Witness ==
    /\ hodPc = "built"
    /\ Len(HourSamples(1)) > 2
    /\ \E i \in 1..Len(hodRows) : hodRows[i].free > hodRows[i].total /\ hodRows[i].total > 0
    /\ RLt(Rat(1, 2), hodProfile.mean[1]) /\ RLt(hodProfile.mean[1], RInt(1))
    /\ RLt(hodProfile.q10[1], hodProfile.q90[1])
    /\ hodProfile.mean[5] = Rat(1, 2) /\ hodProfile.q10[5] = Rat(1, 4)

\* C30: in every series returned by fetchAnnualHourlyByRadius, from any tier, each bucket
\* has free >= 0 and free + occ = total
C30_FreePlusOcc ==
    annPc = "returned" =>
        \A k \in 1..Len(annResult.series) :
            /\ annResult.series[k].free >= 0
            /\ annResult.series[k].free + annResult.series[k].occ = annResult.series[k].total

\* a Tier A series with a bucket hit by more rows than there are bays, which reports no
\* free bay, next to a bucket with free and occupied bays
C30_Witness ==
    /\ annPc = "returned" /\ annResult.tier = "A"
    /\ \E k \in 1..Len(annResult.series) :
         /\ EventBuckets(annOut, annWindow[1], annWindow[2]).buckets[annResult.series[k].ts]
                > annResult.capacity
         /\ annResult.series[k].free = 0
    /\ \E k \in 1..Len(annResult.series) :
         annResult.series[k].free > 0 /\ annResult.series[k].occ > 0

(***************************************************************************)
(* server.js: mapSensorRecordToParking.                                    *)
(* A string is the sequence of its characters.  The value of a status      *)
(* field carries its JavaScript type: t is "string", "boolean", "number",  *)
(* "null", or "undefined" for what find returns when nothing is defined.   *)
(***************************************************************************)
StrV(s)  == [t |-> "string",  s |-> s,    b |-> FALSE, n |-> 0]
BoolV(b) == [t |-> "boolean", s |-> <<>>, b |-> b,     n |-> 0]
NumV(n)  == [t |-> "number",  s |-> <<>>, b |-> FALSE, n |-> n]
NullV    == [t |-> "null",    s |-> <<>>, b |-> FALSE, n |-> 0]
UndefV   == [t |-> "undefined", s |-> <<>>, b |-> FALSE, n |-> 0]

UpperCase == <<"A", "B", "C", "D", "E", "F", "G", "H", "I", "J", "K", "L", "M", "N", "O", "P", "Q", "R", "S", "T", "U", "V", "W", "X", "Y", "Z">>
LowerCase == <<"a", "b", "c", "d", "e", "f", "g", "h", "i", "j", "k", "l", "m", "n", "o", "p", "q", "r", "s", "t", "u", "v", "w", "x", "y", "z">>
WhiteSpace == {" ", "tab"}

\* String#toLowerCase
ToLowerCase(s) ==
    [i \in 1..Len(s) |->
        IF \E k \in 1..Len(UpperCase) : UpperCase[k] = s[i]
        THEN LowerCase[CHOOSE k \in 1..Len(UpperCase) : UpperCase[k] = s[i]]
        ELSE s[i]]

\* String#trim
Trim(s) ==
    LET inked == { i \in 1..Len(s) : s[i] \notin WhiteSpace }
    IN  IF inked = {} THEN <<>>
        ELSE SubSeq(s, CHOOSE i \in inked : \A j \in inked : i <= j,
                       CHOOSE i \in inked : \A j \in inked : j <= i)

\* String#includes
Includes(s, part) ==
    \E i \in 1..(Len(s) - Len(part) + 1) : SubSeq(s, i, i + Len(part) - 1) = part

\* Array#includes
IsOneOf(s, list) == \E k \in 1..Len(list) : list[k] = s

FREE_WORDS ==
    << <<"v", "a", "c", "a", "n", "t">>,
       <<"u", "n", "o", "c", "c", "u", "p", "i", "e", "d">>,
       <<"f", "r", "e", "e">>,
       <<"a", "v", "a", "i", "l", "a", "b", "l", "e">>,
       <<"c", "l", "e", "a", "r">>,
       <<"u", "n", "o", "c", "c">>,
       <<"e", "m", "p", "t", "y">>,
       <<"n", "o", "t", " ", "p", "r", "e", "s", "e", "n", "t">>,
       <<"n", "o">>,
       <<"0">> >>

OCCUPIED_WORDS ==
    << <<"o", "c", "c", "u", "p", "i", "e", "d">>,
       <<"p", "r", "e", "s", "e", "n", "t">>,
       <<"b", "u", "s", "y">>,
       <<"f", "u", "l", "l">>,
       <<"y", "e", "s">>,
       <<"1">>,
       <<"t", "r", "u", "e">> >>

FREE_PARTS ==
    << <<"u", "n", "o", "c", "c", "u", "p", "i", "e", "d">>,
       <<"v", "a", "c", "a", "n", "t">>,
       <<"a", "v", "a", "i", "l", "a", "b", "l", "e">> >>

OCCUPIED_PARTS ==
    << <<"o", "c", "c", "u", "p", "i", "e", "d">>,
       <<"p", "r", "e", "s", "e", "n", "t">> >>

STATUS_FIELDS ==
    << "status_description",
       "status",
       "Status",
       "occupancy",
       "occupancy_status",
       "occupancystatus",
       "parkingstatus",
       "bay_status",
       "baystatus",
       "vehicle_present",
       "vehiclepresent",
       "present",
       "presence",
       "is_occupied",
       "isoccupied",
       "is_free",
       "isfree",
       "available",
       "availability",
       "occupied" >>

\* availability: "free" for true, "occupied" for false, NoValue for null
StringAvailability_OccupiedFirst(raw) ==
    LET s == ToLowerCase(Trim(raw))
    IN  IF IsOneOf(s, FREE_WORDS) THEN "free"
        ELSE IF IsOneOf(s, OCCUPIED_WORDS) THEN "occupied"
        ELSE IF \E k \in 1..Len(OCCUPIED_PARTS) : Includes(s, OCCUPIED_PARTS[k]) THEN "occupied"
        ELSE IF \E k \in 1..Len(FREE_PARTS) : Includes(s, FREE_PARTS[k]) THEN "free"
        ELSE NoValue

StringAvailability(raw) ==
    LET s == ToLowerCase(Trim(raw))
    IN  IF IsOneOf(s, FREE_WORDS) THEN "free"
        ELSE IF IsOneOf(s, OCCUPIED_WORDS) THEN "occupied"
        ELSE IF \E k \in 1..Len(FREE_PARTS) : Includes(s, FREE_PARTS[k]) THEN "free"
        ELSE IF \E k \in 1..Len(OCCUPIED_PARTS) : Includes(s, OCCUPIED_PARTS[k]) THEN "occupied"
        ELSE NoValue

\* candidates.find(v => v !== undefined && v !== null)
RECURSIVE FirstStatus(_, _)
FirstStatus(r, names) ==
    IF names = <<>> THEN UndefV
    ELSE IF Head(names) \in DOMAIN r /\ r[Head(names)].t # "null" THEN r[Head(names)]
    ELSE FirstStatus(r, Tail(names))

Availability(val) ==
    IF val.t = "string" THEN StringAvailability(val.s)
    ELSE IF val.t = "boolean" THEN (IF val.b THEN "occupied" ELSE "free")
    ELSE IF val.t = "number" THEN (IF val.n = 0 THEN "free" ELSE IF val.n = 1 THEN "occupied" ELSE NoValue)
    ELSE NoValue

AvailableSpots_ZeroWhenUnknown(availability) ==
    IF availability = "free" THEN 1 ELSE 0

\* available_spots: 1, 0, or Null when the availability is unknown
AvailableSpots(availability) ==
    IF availability = "free" THEN 1 ELSE IF availability = "occupied" THEN 0 ELSE Null

SENSOR_LAT_FIELDS == << "lat", "latitude" >>
SENSOR_LON_FIELDS == << "lng", "lon", "longitude" >>
SENSOR_ID_FIELDS  ==
    << "kerbsideid", "bay_id", "bayid", "marker_id", "sensor", "asset_id", "device_id", "id", "recordid" >>
UPDATED_FIELDS    ==
    << "status_timestamp", "lastupdated", "last_update", "updated_at", "modificationdate",
       "datetime", "timestamp" >>

\* a ?? b ?? ... over the row, then (r.location && r.location.k) ?? (r.geo_point_2d && ...)
SensorCoord(r, names, k) ==
    LET flat == Coalesce(r, names)
        loc  == IF "location" \in DOMAIN r THEN Get(r.location, k) ELSE Undefined
        geo  == IF "geo_point_2d" \in DOMAIN r THEN Get(r.geo_point_2d, k) ELSE Undefined
        v    == IF flat \notin {Null, Undefined} THEN flat
                ELSE IF loc \notin {Null, Undefined} THEN loc
                ELSE geo
    IN  IF v = Undefined THEN NotFinite ELSE IF v = Null THEN 0 ELSE v

\* a || b || ... over the row; Undefined when none is truthy
RECURSIVE FirstTruthy(_, _)
FirstTruthy(r, names) ==
    IF names = <<>> THEN Undefined
    ELSE IF Truthy(Get(r, Head(names))) THEN r[Head(names)]
    ELSE FirstTruthy(r, Tail(names))

\* the id: the first id field that is not nullish, else the pair `${lat},${lon}`
SensorId(r, lat, lon) ==
    LET v == Coalesce(r, SENSOR_ID_FIELDS)
    IN  IF v \notin {Null, Undefined} THEN <<v>> ELSE <<lat, lon>>

mapSensorRecordToParking(r, nowT) ==
    LET lat == SensorCoord(r, SENSOR_LAT_FIELDS, "lat")
        lon == SensorCoord(r, SENSOR_LON_FIELDS, "lon")
        val == FirstStatus(r, STATUS_FIELDS)
        upd == FirstTruthy(r, UPDATED_FIELDS)
    IN  [ id              |-> SensorId(r, lat, lon),
          lat             |-> lat,
          lng             |-> lon,
          capacity        |-> 1,
          available_spots |-> AvailableSpots(Availability(val)),
          updated_at      |-> IF upd = Undefined THEN nowT ELSE upd,
          raw_status      |-> val ]

\* the status strings of the model: a core in some letter case, around it nothing, a
\* blank or a letter
StatusCores ==
    { <<"v", "a", "c", "a", "n", "t">>,
      <<"V", "A", "C", "A", "N", "T">>,
      <<"U", "n", "o", "c", "c", "u", "p", "i", "e", "d">>,
      <<"U", "N", "O", "C", "C", "U", "P", "I", "E", "D">>,
      <<"o", "c", "c", "u", "p", "i", "e", "d">>,
      <<"P", "r", "e", "s", "e", "n", "t">>,
      <<"N", "o", "t", " ", "P", "r", "e", "s", "e", "n", "t">>,
      <<"f", "r", "e", "e">>,
      <<"u", "n", "o", "c", "c">>,
      <<"Y", "E", "S">>,
      <<"n", "o">>,
      <<"1">>,
      <<"0">>,
      <<"T", "r", "u", "e">>,
      <<"m", "a", "y", "b", "e">>,
      <<"a", "v", "a", "i", "l", "a", "b", "l", "e">>,
      <<>> }

StatusStrings ==
    { pre \o core \o post : pre \in {<<>>, <<" ">>, <<"x">>}, core \in StatusCores,
                            post \in {<<>>, <<" ">>} }

SenValueSet ==
    { StrV(s) : s \in StatusStrings }
      \cup { BoolV(TRUE), BoolV(FALSE), NumV(0), NumV(1), NumV(2), NullV }

\* what a later status field of the same row holds
SenMaskSet == { NullV, BoolV(TRUE), StrV(<<"o", "c", "c", "u", "p", "i", "e", "d">>) }

SenFieldSet == { "status_description", "status", "occupied" }

SenNow == 100

SenInit ==
    /\ senPc = "input"
    /\ senRow = [kerbsideid |-> 1, lat |-> 5, lon |-> 6, lastupdated |-> 30]
    /\ senOut = [available_spots |-> Null]

SenSetField ==
    /\ senPc = "input"
    /\ \E f \in SenFieldSet \ DOMAIN senRow :
         \E v \in (IF DOMAIN senRow \cap SenFieldSet = {} THEN SenValueSet ELSE SenMaskSet) :
            senRow' = SetField(senRow, f, v)
    /\ UNCHANGED <<senPc, senOut>>
    /\ UNCHANGED senOthers

SenMap ==
    /\ senPc = "input"
    /\ senPc' = "done"
    /\ senOut' = mapSensorRecordToParking(senRow, SenNow)
    /\ UNCHANGED senRow
    /\ UNCHANGED senOthers

SenNext == SenSetField \/ SenMap

\* the status the row resolves: its first candidate field that is neither undefined nor null
SenStatus == FirstStatus(senRow, STATUS_FIELDS)

\* C11: a status string is resolved without regard to letter case and surrounding
\* whitespace, a string containing 'vacant' or 'unoccupied' (so 'UNOCCUPIED ') gives
\* available_spots = 1, and one containing 'unoccupied' is never resolved as occupied
C11_StatusStringMatching ==
    (senPc = "done" /\ SenStatus.t = "string") =>
        LET s == ToLowerCase(Trim(SenStatus.s))
            f == CHOOSE f \in SenFieldSet : f \in DOMAIN senRow /\ senRow[f] = SenStatus
        IN  /\ (Includes(s, <<"v", "a", "c", "a", "n", "t">>) \/ Includes(s, <<"u", "n", "o", "c", "c", "u", "p", "i", "e", "d">>)) =>
                  senOut.available_spots = 1
            /\ senOut.available_spots =
                  mapSensorRecordToParking(SetField(senRow, f, StrV(s)), SenNow).available_spots

\* C11 witness: the row whose status is 'UNOCCUPIED ' has been mapped
C11_Witness ==
    /\ senPc = "done"
    /\ SenStatus = StrV(<<"U", "N", "O", "C", "C", "U", "P", "I", "E", "D", " ">>)
    /\ senOut.available_spots = 1

\* the values the mapping recognises
Recognised(val) ==
    \/ val.t = "boolean"
    \/ val.t = "number" /\ val.n \in {0, 1}
    \/ /\ val.t = "string"
       /\ LET s == ToLowerCase(Trim(val.s))
          IN  \/ IsOneOf(s, FREE_WORDS) \/ IsOneOf(s, OCCUPIED_WORDS)
              \/ \E k \in 1..Len(FREE_PARTS) : Includes(s, FREE_PARTS[k])
              \/ \E k \in 1..Len(OCCUPIED_PARTS) : Includes(s, OCCUPIED_PARTS[k])

\* C12: available_spots is 1, 0 or null, and it is null (never 0) exactly when no
\* candidate status field is defined or the first defined one matches no recognised value
C12_NullIffUnknown ==
    senPc = "done" =>
        /\ senOut.available_spots \in {1, 0, Null}
        /\ senOut.available_spots = Null <=> ~Recognised(SenStatus)

\* C12 witness: a row whose status string matches nothing has been mapped to null
C12_Witness ==
    /\ senPc = "done"
    /\ SenStatus = StrV(<<"m", "a", "y", "b", "e">>)
    /\ senOut.available_spots = Null

(***************************************************************************)
(* server.js: GET /api/v1/stats/parking, the average occupancy of the live *)
(* snapshot.  lat and lng are counted in 1/10000 of a degree.              *)
(***************************************************************************)
DegreeUnits == 10000

\* `${p.lat.toFixed(3)},${p.lng.toFixed(3)}`
GridKey(p) == <<ToFixed(Rat(p.lat, DegreeUnits), 1000), ToFixed(Rat(p.lng, DegreeUnits), 1000)>>

\* b.occ += (p.available_spots ? 0 : 1)
OccupiedShare(p) == IF p.available_spots \notin {Null, 0} THEN 0 ELSE 1

\* the loop over the items: the buckets in the order of their first item
RECURSIVE GridBuckets(_)
GridBuckets(items) ==
    IF items = <<>> THEN <<>>
    ELSE LET acc  == GridBuckets(SubSeq(items, 1, Len(items) - 1))
             p    == items[Len(items)]
             here == { i \in 1..Len(acc) : acc[i].carPark = GridKey(p) }
         IN  IF p.lat = NotFinite \/ p.lng = NotFinite THEN acc
             ELSE IF here = {}
             THEN Append(acc, [carPark |-> GridKey(p), total |-> 1, occ |-> OccupiedShare(p)])
             ELSE [i \in 1..Len(acc) |->
                     IF i \in here
                     THEN [acc[i] EXCEPT !.total = @ + 1, !.occ = @ + OccupiedShare(p)]
                     ELSE acc[i]]

\* Math.round((b.occ / Math.max(1, b.total)) * 100)
Percentage(b) == MathRound(RMul(Rat(b.occ, Max(1, b.total)), RInt(100)))

\* sort((a,b) => b.percentage - a.percentage), stable
RECURSIVE InsertByPercentage(_, _)
InsertByPercentage(x, s) ==
    IF s = <<>> THEN <<x>>
    ELSE IF Head(s).percentage < x.percentage THEN <<x>> \o s
    ELSE <<Head(s)>> \o InsertByPercentage(x, Tail(s))

RECURSIVE SortByPercentage(_)
SortByPercentage(s) ==
    IF s = <<>> THEN <<>>
    ELSE InsertByPercentage(s[Len(s)], SortByPercentage(SubSeq(s, 1, Len(s) - 1)))

averageOccupancy(recs, nowT) ==
    LET items  == [i \in 1..Len(recs) |-> mapSensorRecordToParking(recs[i], nowT)]
        b      == GridBuckets(items)
        sorted == SortByPercentage([i \in 1..Len(b) |->
                                      [carPark |-> b[i].carPark, percentage |-> Percentage(b[i])]])
    IN  SubSeq(sorted, 1, Min(Len(sorted), StatTop))

\* live rows: free, occupied, of unknown status, without status, without coordinates
StatRowSet ==
    { [kerbsideid |-> 1, lat |-> 12344, lon |-> 20000, status_description |-> StrV(<<"U","n","o","c","c","u","p","i","e","d">>)],
      [kerbsideid |-> 2, lat |-> 12336, lon |-> 20000, status_description |-> StrV(<<"P","r","e","s","e","n","t">>)],
      [kerbsideid |-> 3, lat |-> 12344, lon |-> 20000, status_description |-> StrV(<<"m","a","y","b","e">>)],
      [kerbsideid |-> 4, location |-> [lat |-> 55555, lon |-> 20000]],
      [kerbsideid |-> 5, lat |-> 55555, lon |-> 20004, occupied |-> BoolV(TRUE)],
      [kerbsideid |-> 6, status_description |-> NumV(0)] }

StatInit ==
    /\ statPc = "input"
    /\ statRecs = <<>>
    /\ statOut = <<>>

StatAddRow ==
    /\ statPc = "input"
    /\ Len(statRecs) < MaxRecs
    /\ \E r \in StatRowSet : statRecs' = Append(statRecs, r)
    /\ UNCHANGED <<statPc, statOut>>
    /\ UNCHANGED statOthers

StatAverage ==
    /\ statPc = "input"
    /\ statPc' = "done"
    /\ statOut' = averageOccupancy(statRecs, SenNow)
    /\ UNCHANGED statRecs
    /\ UNCHANGED statOthers

StatNext == StatAddRow \/ StatAverage

\* the records of a grid bucket, and those of them known to be occupied
StatInBucket(key) ==
    { i \in 1..Len(statRecs) :
        LET p == mapSensorRecordToParking(statRecs[i], SenNow)
        IN  p.lat # NotFinite /\ p.lng # NotFinite /\ GridKey(p) = key }

StatKnownOccupied(key) ==
    { i \in StatInBucket(key) :
        mapSensorRecordToParking(statRecs[i], SenNow).available_spots = 0 }

\* C13: in averageOccupancy a record of unknown availability does not count as
\* occupied: the percentage of a bucket is that of its records known to be occupied
C13_UnknownNotOccupiedInStats ==
    statPc = "done" =>
        \A k \in 1..Len(statOut) :
            LET key == statOut[k].carPark
            IN  statOut[k].percentage =
                  MathRound(RMul(Rat(Cardinality(StatKnownOccupied(key)),
                                     Max(1, Cardinality(StatInBucket(key)))), RInt(100)))

(***************************************************************************)
(* server.js: GET /api/v1/parking/areas/:areaId and                        *)
(* GET /api/v1/parking/areas/:areaId/forecast.  h3-js is a library: of an  *)
(* id that is no cell, isValidCell says so, and cellToLatLng either throws *)
(* or returns a pair of numbers, depending on its version.  reqFetches     *)
(* counts the calls that issue upstream requests.                          *)
(***************************************************************************)
ValidCells == { "8928308280fffff", "8928308283bffff" }

AreaIdSet == ValidCells \cup { "zz", "8928" }

\* h3.isValidCell(areaId)
isValid(areaId) == areaId \in ValidCells

ReqInit ==
    /\ reqPc = "idle"
    /\ req = [route |-> "area", areaId |-> "8928308280fffff", source |-> "live"]
    /\ reqFetches = 0
    /\ reqMembers = 0
    /\ reqStatus = 0

\* a request arrives; a finished one leaves the scene
ReqCall ==
    /\ reqPc \in {"idle", "done"}
    /\ \E route \in {"area", "forecast"}, id \in AreaIdSet, source \in {"live", "annual"} :
         /\ req' = [route |-> route, areaId |-> id, source |-> source]
         /\ reqPc' = IF route = "area" THEN "resolve" ELSE "center"
    /\ reqFetches' = 0
    /\ reqMembers' = 0
    /\ reqStatus' = 0
    /\ UNCHANGED reqOthers

\* forecast: const [cLat, cLng] = toLatLng(areaId), then the branch on source
ReqCenter ==
    /\ reqPc = "center"
    /\ \E throws \in (IF isValid(req.areaId) THEN {FALSE} ELSE BOOLEAN) :
         IF throws
         THEN reqPc' = "done" /\ reqStatus' = 500
         ELSE /\ reqPc' = IF req.source = "annual" THEN "annual" ELSE "resolve"
              /\ UNCHANGED reqStatus
    /\ UNCHANGED <<req, reqFetches, reqMembers>>
    /\ UNCHANGED reqOthers

\* forecast, source=annual: await ods.fetchAnnualHourlyByRadius(...), then the forecast
ReqAnnual ==
    /\ reqPc = "annual"
    /\ reqFetches' = reqFetches + 1
    /\ \E ok \in BOOLEAN : reqStatus' = IF ok THEN 200 ELSE 500
    /\ reqPc' = "done"
    /\ UNCHANGED <<req, reqMembers>>
    /\ UNCHANGED reqOthers

\* resolveAreaMembers: the validity test, and the catch of the route that called it
ReqResolve ==
    /\ reqPc = "resolve"
    /\ IF ~isValid(req.areaId)
       THEN /\ reqPc' = "done"
            /\ reqStatus' = IF req.route = "area" THEN 400 ELSE 500
       ELSE /\ reqPc' = "first"
            /\ UNCHANGED reqStatus
    /\ UNCHANGED <<req, reqFetches, reqMembers>>
    /\ UNCHANGED reqOthers

\* resolveAreaMembers: the first pass around the given point
ReqFirstPass ==
    /\ reqPc = "first"
    /\ reqFetches' = reqFetches + 1
    /\ \E ok \in BOOLEAN, m \in 0..MaxMembers :
         IF ~ok THEN reqPc' = "done" /\ reqStatus' = 500 /\ UNCHANGED reqMembers
         ELSE /\ reqMembers' = m
              /\ reqPc' = IF m = 0 THEN "fallback" ELSE "resolved"
              /\ UNCHANGED reqStatus
    /\ UNCHANGED req
    /\ UNCHANGED reqOthers

\* resolveAreaMembers: the fallback around the centre of the cell
ReqFallback ==
    /\ reqPc = "fallback"
    /\ reqFetches' = reqFetches + 1
    /\ \E ok \in BOOLEAN, m \in 0..MaxMembers :
         IF ~ok THEN reqPc' = "done" /\ reqStatus' = 500 /\ UNCHANGED reqMembers
         ELSE reqMembers' = m /\ reqPc' = "resolved" /\ UNCHANGED reqStatus
    /\ UNCHANGED req
    /\ UNCHANGED reqOthers

\* what the route does with the members: the summary of the area, or the hourly
\* counts of the events and the forecast
ReqResolved ==
    /\ reqPc = "resolved"
    /\ IF req.route = "area"
       THEN /\ reqStatus' = IF reqMembers = 0 THEN 404 ELSE 200
            /\ UNCHANGED reqFetches
       ELSE /\ reqFetches' = reqFetches + 1
            /\ \E ok \in BOOLEAN : reqStatus' = IF ok THEN 200 ELSE 500
    /\ reqPc' = "done"
    /\ UNCHANGED <<req, reqMembers>>
    /\ UNCHANGED reqOthers

ReqNext ==
    \/ ReqCall \/ ReqCenter \/ ReqAnnual \/ ReqResolve
    \/ ReqFirstPass \/ ReqFallback \/ ReqResolved

\* C14: a request with a malformed cell id, on either route, ends with status 400
\* and has issued no upstream fetch
C14_MalformedIdIsClientError ==
    (reqPc = "done" /\ ~isValid(req.areaId)) => (reqStatus = 400 /\ reqFetches = 0)

(***************************************************************************)
(* server.js: AREA_HOURLY, the hourly samples kept in memory per area, as  *)
(* GET /api/v1/parking/areas writes it.  A handler runs to completion      *)
(* between two awaits, so a request is one step up to                      *)
(* await fetchLiveSensors and one step after it; several requests may be   *)
(* suspended at the await at once.                                         *)
(***************************************************************************)
RetentionDays == 30

\* days * 24 * 3600 * 1000 milliseconds, in ticks
DayTicks(days) == days * HoursPerDay * TicksPerHour

\* hourISO(d): the hour d lies in
hourISO(d) == d - (d % TicksPerHour)

\* _pruneOld(buckets, days)
pruneOld_KeepAll(buckets, days, nowT) == buckets

pruneOld(buckets, days, nowT) ==
    LET cut == nowT - DayTicks(days)
    IN  [k \in { x \in DOMAIN buckets : ~(x < cut) } |-> buckets[k]]

\* b.free += free; b.occ += occ; b.total += total; b.n += 1
Accumulate_Overwrite(b, s) ==
    [ts |-> b.ts, free |-> s.free, occ |-> s.occ, total |-> s.total, n |-> 1]

Accumulate(b, s) ==
    [ts |-> b.ts, free |-> b.free + s.free, occ |-> b.occ + s.occ,
     total |-> b.total + s.total, n |-> b.n + 1]

\* the bucket map of an area, none when the area has no map
BucketsOf(st, areaId) == IF areaId \in DOMAIN st THEN st[areaId] ELSE << >>

\* recordAreaSample(areaId, {free, occ, total, ts}): the store after the call
recordAreaSample(st, areaId, s, nowT) ==
    IF areaId = "" THEN st
    ELSE LET buckets == BucketsOf(st, areaId)
             key     == hourISO(s.ts)
             b       == IF key \in DOMAIN buckets THEN buckets[key]
                        ELSE [ts |-> key, free |-> 0, occ |-> 0, total |-> 0, n |-> 0]
             written == [k \in DOMAIN buckets \cup {key} |->
                            IF k = key THEN Accumulate(b, s) ELSE buckets[k]]
         IN  [a \in DOMAIN st \cup {areaId} |->
                 IF a = areaId THEN pruneOld(written, RetentionDays, nowT) ELSE st[a]]

\* the sample the route takes of an item of its response
SampleOf(item, nowT) ==
    [ free  |-> item.available_bays,
      occ   |-> Max(0, item.total_bays - item.available_bays),
      total |-> item.total_bays,
      ts    |-> IF item.updated_at # Null THEN item.updated_at ELSE nowT ]

\* the tally after one more call for a key
Tallied(tally, a, s, susp) ==
    LET key == <<a, hourISO(s.ts)>>
        old == IF key \in DOMAIN tally THEN tally[key]
               ELSE [n |-> 0, free |-> 0, occ |-> 0, total |-> 0, susp |-> FALSE]
        new == [n |-> old.n + 1, free |-> old.free + s.free, occ |-> old.occ + s.occ,
                total |-> old.total + s.total, susp |-> old.susp \/ susp]
    IN  [k \in DOMAIN tally \cup {key} |-> IF k = key THEN new ELSE tally[k]]

\* for (const item of top) recordAreaSample(item.area_id, ...): the store after the
\* loop, the tally of the calls, and what each call of the loop left behind
RECURSIVE RecordAll(_, _, _, _, _)
RecordAll(acc, top, nowT, susp, cut) ==
    IF top = <<>> THEN acc
    ELSE LET item  == Head(top)
             s     == SampleOf(item, nowT)
             after == recordAreaSample(acc.store, item.area_id, s, nowT)
             call  == [ areaId |-> item.area_id, key |-> hourISO(s.ts),
                        stale  |-> { k \in DOMAIN BucketsOf(after, item.area_id) : k < cut },
                        pruned |-> (DOMAIN BucketsOf(acc.store, item.area_id) \cup {hourISO(s.ts)})
                                      \ DOMAIN BucketsOf(after, item.area_id) ]
         IN  RecordAll([ store |-> after,
                         tally |-> Tallied(acc.tally, item.area_id, s, susp),
                         calls |-> Append(acc.calls, call) ],
                       Tail(top), nowT, susp, cut)

\* readAreaSeries(areaId, days)
RECURSIVE SeriesOf(_, _)
SeriesOf(buckets, keys) ==
    IF keys = {} THEN <<>>
    ELSE LET k == CHOOSE x \in keys : \A y \in keys : x <= y
             b == buckets[k]
         IN  << [ ts    |-> b.ts,
                  free  |-> MathRound(Rat(b.free, Max(1, b.n))),
                  occ   |-> MathRound(Rat(b.occ, Max(1, b.n))),
                  total |-> MathRound(Rat(b.total, Max(1, b.n))) ] >>
             \o SeriesOf(buckets, keys \ {k})

readAreaSeries(st, areaId, days, nowT) ==
    IF areaId \notin DOMAIN st THEN <<>>
    ELSE LET cut == nowT - DayTicks(days)
         IN  SeriesOf(st[areaId], { k \in DOMAIN st[areaId] : k >= cut })

StoreStart  == 3000                    \* the clock when the server starts
StoreAreas  == { "89a", "89b" }
Requests    == 1..MaxRequests

\* an area of a response: bays free and in all, and the latest update of a member,
\* which is unknown or older than the retention
TopItemSet(nowT) ==
    { [area_id |-> a, available_bays |-> f, total_bays |-> 2, updated_at |-> u] :
        a \in StoreAreas, f \in {1},
        u \in {Null, nowT - DayTicks(RetentionDays) - 1} }

\* the responses: areas of different cells
TopSet(nowT) ==
    {<<>>} \cup { <<x>> : x \in TopItemSet(nowT) }
           \cup { p \in TopItemSet(nowT) \X TopItemSet(nowT) : p[1].area_id # p[2].area_id }

\* days as the routes pass it: the default and the most the forecast allows
ReadDaysSet == { 14, 3650 }

\* clock advances: half an hour, a day more than the retention
AdvanceSet == { 1, DayTicks(RetentionDays + 1) }

\* the recordAreaSample calls made so far
RECURSIVE SumN(_)
SumN(keys) ==
    IF keys = {} THEN 0
    ELSE LET k == CHOOSE x \in keys : TRUE IN storeTally[k].n + SumN(keys \ {k})

SamplesMade == SumN(DOMAIN storeTally)

StoreInit ==
    /\ storeNow = StoreStart
    /\ store = << >>
    /\ storePc = [r \in Requests |-> "idle"]
    /\ storeTally = << >>
    /\ storeLast = <<>>
    /\ storeRead = <<>>
    /\ storeTicks = 0

\* GET /parking/areas up to await fetchLiveSensors(...)
StoreBegin(r) ==
    /\ storePc[r] = "idle"
    /\ storePc' = [storePc EXCEPT ![r] = "awaiting"]
    /\ storeLast' = <<>>
    /\ storeRead' = <<>>
    /\ UNCHANGED <<storeNow, store, storeTally, storeTicks>>
    /\ UNCHANGED storeOthers

\* GET /parking/areas after the await: the fetch failed, or the response is ranked
\* and a sample of each of its areas is recorded
StoreContinue(r) ==
    /\ storePc[r] = "awaiting"
    /\ storePc' = [storePc EXCEPT ![r] = "idle"]
    /\ \E ok \in BOOLEAN :
         IF ~ok THEN storeLast' = <<>> /\ UNCHANGED <<store, storeTally>>
         ELSE \E top \in TopSet(storeNow) :
                /\ SamplesMade + Len(top) <= MaxSamples
                /\ LET susp == \E q \in Requests \ {r} : storePc[q] = "awaiting"
                       done == RecordAll([store |-> store, tally |-> storeTally, calls |-> <<>>],
                                         top, storeNow, susp, storeNow - DayTicks(RetentionDays))
                   IN  /\ store' = done.store
                       /\ storeTally' = done.tally
                       /\ storeLast' = done.calls
    /\ storeRead' = <<>>
    /\ UNCHANGED <<storeNow, storeTicks>>
    /\ UNCHANGED storeOthers

\* the forecast, history and debug routes read the series of an area
StoreReadSeries ==
    /\ \E a \in StoreAreas, days \in ReadDaysSet :
         storeRead' = readAreaSeries(store, a, days, storeNow)
    /\ storeLast' = <<>>
    /\ UNCHANGED <<storeNow, store, storePc, storeTally, storeTicks>>
    /\ UNCHANGED storeOthers

\* time passes
StoreTick ==
    /\ storeTicks < MaxAdvances
    /\ storeTicks' = storeTicks + 1
    /\ \E d \in AdvanceSet : storeNow' = storeNow + d
    /\ storeLast' = <<>>
    /\ storeRead' = <<>>
    /\ UNCHANGED <<store, storePc, storeTally>>
    /\ UNCHANGED storeOthers

StoreNext ==
    \/ \E r \in Requests : StoreBegin(r)
    \/ \E r \in Requests : StoreContinue(r)
    \/ StoreReadSeries
    \/ StoreTick

InRetention(k) == k >= storeNow - DayTicks(RetentionDays)

\* C15: however the requests interleave at their awaits, every (area, hour) key inside
\* the retention window that recordAreaSample was called for has one bucket, whose n is
\* the number of those calls and whose free, occ and total are the sums of their values
C15_NoSampleLost ==
    \A key \in DOMAIN storeTally :
        InRetention(key[2]) =>
            /\ key[1] \in DOMAIN store
            /\ key[2] \in DOMAIN store[key[1]]
            /\ LET b == store[key[1]][key[2]]
               IN  /\ b.n = storeTally[key].n
                   /\ b.free = storeTally[key].free
                   /\ b.occ = storeTally[key].occ
                   /\ b.total = storeTally[key].total

\* two requests were suspended together; one resumed and wrote a bucket, then the
\* other resumed and wrote the same bucket
C15_Witness ==
    /\ Len(storeLast) = 1
    /\ \A q \in Requests : storePc[q] = "idle"
    /\ LET key == <<storeLast[1].areaId, storeLast[1].key>>
       IN  /\ InRetention(key[2])
           /\ storeTally[key].n = 2
           /\ storeTally[key].susp
           /\ store[key[1]][key[2]].n = 2

\* C16: right after every recordAreaSample call the bucket map of its area holds no
\* bucket of an hour more than 30 days before the clock, the one just written included
C16_PrunedOnWrite ==
    \A i \in 1..Len(storeLast) : storeLast[i].stale = {}

\* a call wrote a bucket older than the retention and dropped it, another call dropped
\* a bucket written earlier
C16_Witness ==
    /\ \E i \in 1..Len(storeLast) : storeLast[i].key \in storeLast[i].pruned
    /\ \E i \in 1..Len(storeLast) : storeLast[i].pruned \ {storeLast[i].key} # {}

\* C17: whatever days is, a read returns no point of an hour more than 30 days before
\* the clock
C17_ReadWithinRetention ==
    \A k \in 1..Len(storeRead) : storeRead[k].ts >= storeNow - DayTicks(RetentionDays)

(***************************************************************************)
(* opendatasoft.js: the paging loops of fetchLiveSensors, of fetchAll in   *)
(* fetchEventsHourlyCounts, of _fetchAnnualRangeOnce and of the pedestrian *)
(* counts (the loop inside its catch has the same shape).  The server      *)
(* decides how many rows a page holds: none, fewer than asked, as many, or *)
(* more.  A row is known by its place in the server's order; pgLog is the  *)
(* history of the page requests.                                           *)
(***************************************************************************)
\* Math.max(1, Math.min(Number(limit) || 100, 5000))
LiveDesired(limit) ==
    Max(1, Min(IF limit \in {0, NotFinite} THEN LimitDefault ELSE limit, LimitCeiling))

\* Math.min(PAGE_MAX, desired - results.length)
PageSize_Fixed(desired, have) == PAGE_MAX

PageSize(desired, have) == Min(PAGE_MAX, desired - have)

\* a loop that goes on after an empty or a short page
Continues_IgnoreShort(n, pageSize, have, bound) == have < bound

\* after a page of n rows: no break on an empty or short chunk, and the test of the loop
\* (results.length < desired, results.length < limit, offset < 100000) holds
Continues(n, pageSize, have, bound) == n > 0 /\ n >= pageSize /\ have < bound

\* the rows of a page of n rows served at an offset
Chunk(offset, n) == [i \in 1..n |-> offset + i]

\* limit as the callers pass it: not a number, zero, negative, small, beyond the ceiling
LimitSet == {NotFinite, -2} \cup (0..MaxLimit)

PgInit ==
    /\ pgPc = "idle"
    /\ pgFn = "live"
    /\ pgDesired = 0
    /\ pgResults = <<>>
    /\ pgOffset = 0
    /\ pgLog = <<>>

\* the call, up to the first test of the loop
PgCall ==
    /\ pgPc = "idle"
    /\ \E fn \in {"live", "events", "range", "ped"}, limit \in LimitSet :
         /\ fn \in {"events", "range"} => limit >= 0
         /\ fn = "ped" => limit = OffsetCap
         /\ pgFn' = fn
         /\ pgDesired' = IF fn = "live" THEN LiveDesired(limit) ELSE limit
    /\ pgPc' = IF 0 < pgDesired' THEN "paging" ELSE "done"
    /\ pgResults' = <<>>
    /\ pgOffset' = 0
    /\ pgLog' = <<>>
    /\ UNCHANGED pgOthers

\* one turn of the loop: the request, its reply, and the test that follows
PgPage ==
    /\ pgPc = "paging"
    /\ LET pageSize == IF pgFn = "ped" THEN PAGE_MAX ELSE PageSize(pgDesired, Len(pgResults))
       IN  \E ok \in BOOLEAN, n \in 0..(pageSize + 1) :
             IF ~ok
             THEN /\ pgPc' = "threw"
                  /\ pgLog' = Append(pgLog, [limit |-> pageSize, offset |-> pgOffset,
                                             had |-> Len(pgResults), ok |-> FALSE, got |-> 0])
                  /\ UNCHANGED <<pgResults, pgOffset>>
             ELSE /\ pgLog' = Append(pgLog, [limit |-> pageSize, offset |-> pgOffset,
                                             had |-> Len(pgResults), ok |-> TRUE, got |-> n])
                  /\ pgResults' = pgResults \o Chunk(pgOffset, n)
                  /\ pgOffset' = pgOffset + n
                  /\ pgPc' = IF Continues(n, pageSize, Len(pgResults'), pgDesired)
                             THEN "paging" ELSE "done"
    /\ UNCHANGED <<pgFn, pgDesired>>
    /\ UNCHANGED pgOthers

PgNext == PgCall \/ PgPage

\* the pages answered so far
PgAnswered == { i \in 1..Len(pgLog) : pgLog[i].ok }

\* C18: every page request asks for at most PAGE_MAX rows and at most the rows still
\* missing, at the offset of the rows received so far; paging stops exactly when the
\* desired count is reached or a page holds fewer rows than asked; and when no page
\* holds more rows than asked the result holds at most the desired count
C18_Paging ==
    /\ \A i \in 1..Len(pgLog) :
         /\ pgLog[i].limit <= PAGE_MAX
         /\ pgFn # "ped" => pgLog[i].limit <= pgDesired - pgLog[i].had
         /\ pgLog[i].offset = pgLog[i].had
         /\ \A j \in 1..Len(pgLog) : j = i + 1 => pgLog[j].had = pgLog[i].had + pgLog[i].got
    /\ pgPc \in {"paging", "done"} =>
         (pgPc = "done" <=>
            \/ Len(pgResults) >= pgDesired
            \/ pgLog # <<>> /\ pgLog[Len(pgLog)].got < pgLog[Len(pgLog)].limit)
    /\ (pgFn # "ped" /\ \A i \in PgAnswered : pgLog[i].got <= pgLog[i].limit) =>
           Len(pgResults) <= pgDesired

\* three full pages met the desired count
C18_Witness ==
    /\ pgPc = "done"
    /\ Len(pgLog) = 3
    /\ \A i \in 1..Len(pgLog) : pgLog[i].got = pgLog[i].limit
    /\ Len(pgResults) = pgDesired
    /\ pgLog[3].limit < PAGE_MAX

\* C27: every paging loop terminates when each request fails or returns a finite page:
\* a loop that is paging holds fewer rows than its bound, each turn adds at least one row
\* or leaves the loop, and a loop that is paging ends
C27_PagingTerminates ==
    /\ [](pgPc = "paging" => Len(pgResults) < pgDesired)
    /\ [][PgPage => (Len(pgResults') > Len(pgResults) \/ pgPc' # "paging")]_vars
    /\ (pgPc = "paging") ~> (pgPc \in {"done", "threw"})

\* the pedestrian loop left by its offset cap, after full pages only
C27_Witness ==
    /\ pgFn = "ped" /\ pgPc = "done"
    /\ Len(pgLog) >= 2
    /\ \A i \in 1..Len(pgLog) : pgLog[i].ok /\ pgLog[i].got = PAGE_MAX
    /\ pgOffset >= OffsetCap

(***************************************************************************)
(* opendatasoft.js: coordinate normalisation, in _normCoord and in the map *)
(* at the end of fetchLiveSensors.                                         *)
(***************************************************************************)
\* the return of fetchLiveSensors for one row r
LiveNormalize(r) ==
    LET r1 == IF "location" \in DOMAIN r THEN CopyCoord(r, r.location) ELSE r
    IN  IF "geo_point_2d" \in DOMAIN r1 THEN CopyCoord(r1, r1.geo_point_2d) ELSE r1

\* a row with the given fields; the mask names the fields it has
NormRow(mask, lat, lon, location, geo) ==
    [k \in mask \cup {"kerbsideid"} |->
        CASE k = "lat" -> lat
          [] k = "lon" -> lon
          [] k = "location" -> location
          [] k = "geo_point_2d" -> geo
          [] OTHER -> 4]

NormRowSet ==
    { NormRow(mask, lat, lon, location, geo) :
        mask \in SUBSET {"lat", "lon", "location", "geo_point_2d"},
        lat \in {Null, 0, 7}, lon \in {Null, 8},
        location \in { [lat |-> 5, lon |-> 6], [lat |-> Null, lon |-> 6], [lon |-> 6] },
        geo \in { [lat |-> 1, lon |-> 2], [lat |-> 3] } }

NormInit ==
    /\ normPc = "idle"
    /\ normRow = [kerbsideid |-> 4]
    /\ normOut = [kerbsideid |-> 4]

\* a row arrives from upstream
NormCall ==
    /\ normPc = "idle"
    /\ normRow' \in NormRowSet
    /\ normPc' = "row"
    /\ UNCHANGED normOut
    /\ UNCHANGED normOthers

\* _normCoord(row)
NormCoordRow ==
    /\ normPc = "row"
    /\ normOut' = normCoord(normRow)
    /\ normPc' = "normed"
    /\ UNCHANGED normRow
    /\ UNCHANGED normOthers

\* the map of fetchLiveSensors over the row
NormLiveRow ==
    /\ normPc = "row"
    /\ normOut' = LiveNormalize(normRow)
    /\ normPc' = "mapped"
    /\ UNCHANGED normRow
    /\ UNCHANGED normOthers

NormNext == NormCall \/ NormCoordRow \/ NormLiveRow

NormDone == normPc \in {"normed", "mapped"}

\* the value of field k normalisation is to leave: the row's own when it is neither
\* undefined nor null, otherwise that of location, otherwise that of geo_point_2d
Resolved(row, k) ==
    LET Nested(n) == IF n \in DOMAIN row /\ k \in DOMAIN row[n] THEN row[n][k] ELSE Undefined
        own       == Get(row, k)
        first     == IF own \notin {Null, Undefined} THEN own
                     ELSE IF Nested("location") \notin {Null, Undefined} THEN Nested("location")
                     ELSE Nested("geo_point_2d")
    IN  IF first # Undefined THEN first
        ELSE IF Null \in {own, Nested("location")} THEN Null
        ELSE Undefined

\* C25: normalisation never changes a lat or lon the row already has, copies a nested
\* value only into a field that is undefined or null, serves location before
\* geo_point_2d, and leaves every other field of the row unchanged
C25_NormalizeKeepsFields ==
    NormDone =>
        /\ \A k \in {"lat", "lon"} :
               /\ Get(normRow, k) \notin {Null, Undefined} => normOut[k] = normRow[k]
               /\ Get(normOut, k) = Resolved(normRow, k)
        /\ DOMAIN normRow \subseteq DOMAIN normOut
        /\ DOMAIN normOut \subseteq DOMAIN normRow \cup {"lat", "lon"}
        /\ \A k \in DOMAIN normRow \ {"lat", "lon"} : normOut[k] = normRow[k]

\* a row that has its lat but a null lon, and both nested objects with other values: the
\* lat stayed and the lon was copied from location
C25_Witness ==
    /\ normPc = "mapped"
    /\ {"lat", "lon", "location", "geo_point_2d"} \subseteq DOMAIN normRow
    /\ normRow.lat = 7 /\ normRow.lon = Null
    /\ normRow.location = [lat |-> 5, lon |-> 6] /\ normRow.geo_point_2d = [lat |-> 1, lon |-> 2]
    /\ normOut.lat = 7 /\ normOut.lon = 6

(***************************************************************************)
(* Specifications: one per component, the others idle.                     *)
(***************************************************************************)
Init == HodInit /\ AreaInit /\ RankInit /\ AggInit /\ AnnInit /\ SenInit /\ StatInit /\ ReqInit /\ StoreInit /\ PgInit
        /\ NormInit

SpecHod  == Init /\ [][HodNext]_vars
SpecArea == Init /\ [][AreaNext]_vars
SpecRank == Init /\ [][RankNext]_vars
SpecAggregate == Init /\ [][AggNext]_vars
SpecAnnual == Init /\ [][AnnNext]_vars
SpecSensor == Init /\ [][SenNext]_vars
SpecStats == Init /\ [][StatNext]_vars
SpecRequest == Init /\ [][ReqNext]_vars
SpecStore == Init /\ [][StoreNext]_vars
SpecPaging == Init /\ [][PgNext]_vars
SpecNorm == Init /\ [][NormNext]_vars

\* a request is answered or times out, so a loop that is paging takes its next turn
SpecPagingFair == Init /\ [][PgNext]_vars /\ WF_vars(PgPage)

====
